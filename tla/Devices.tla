------------------------------ MODULE Devices -------------------------------
(***************************************************************************)
(* What a submission learns of its device: the row of devices and its copy *)
(* in Redis (fingerprint/service.py, cache.py, devices_repo.py), and the   *)
(* number of devices that behaved the same to the millisecond              *)
(* (services/velocity.py).  A thread serves one submission at a time; it   *)
(* reads the clock before it writes the set.  Redis may drop any key       *)
(* (allkeys-lru in docker-compose.yml).                                    *)
(***************************************************************************)
EXTENDS Integers, FiniteSets

CONSTANTS
    Device,
    Thread,
    MaxCount,   \* bound: submissions of a device
    Window,     \* WINDOW_SECONDS
    Times,      \* bound: the times that are looked at
    NIL

ASSUME DevicesAssumption == IsFiniteSet(Device) /\ Window \in Nat /\ NIL \notin Int

VARIABLES
    devices,    \* devices.event_count, 0 when there is no row
    copy,       \* device:{id} in Redis, its event_count, NIL when absent
    bsig,       \* the sorted set of one signature: a score for each device seen with it
    ends,       \* when that key expires, NIL when it is absent
    clock,
    thread,     \* what a thread has in hand
    met,        \* history: the latest time a device is recorded for, since Redis lost the set
    outrun   \* history: devices whose last record is for an earlier time than that

dvars == <<devices, copy, bsig, ends, clock, thread, met, outrun>>
setvars == <<bsig, ends, met, outrun>>

NoSubmission ==
    [pc |-> "idle", device |-> NIL, count |-> 0, cached |-> FALSE, at |-> 0, cluster |-> 0]

NoSet == [d \in Device |-> NIL]

DevicesInit ==
    /\ devices = [d \in Device |-> 0]
    /\ copy = [d \in Device |-> NIL]
    /\ bsig = NoSet /\ ends = NIL
    /\ clock = 0
    /\ thread = [t \in Thread |-> NoSubmission]
    /\ met = NoSet /\ outrun = {}

\* get_cached.
LookUp(t, d) ==
    /\ thread[t].pc \in {"idle", "done"}
    /\ thread' = [thread EXCEPT ![t] =
          [pc |-> "upsert", device |-> d, count |-> 0, cached |-> (copy[d] # NIL),
           at |-> 0, cluster |-> 0]]
    /\ UNCHANGED <<devices, copy, clock, setvars>>

-----------------------------------------------------------------------------
(* Slips. *)
\* Recorded, the times kept from the first meeting.
RecordedOnce(t) ==
    LET d == thread[t].device IN IF bsig[d] = NIL THEN thread[t].at ELSE bsig[d]

\* Written, the copy incremented as the row is, not overwritten.
WrittenIncrement(t) ==
    LET d == thread[t].device IN IF copy[d] = NIL THEN thread[t].count ELSE copy[d] + 1
-----------------------------------------------------------------------------

\* INSERT ... ON CONFLICT DO UPDATE, committed.
Upsert(t) ==
    /\ thread[t].pc = "upsert"
    /\ LET d == thread[t].device
       IN  /\ devices[d] < MaxCount
           /\ devices' = [devices EXCEPT ![d] = @ + 1]
           /\ thread' = [thread EXCEPT ![t].pc = "write", ![t].count = devices[d] + 1]
    /\ UNCHANGED <<copy, clock, setvars>>

Written(t) == thread[t].count

\* write_through.
WriteThrough(t) ==
    /\ thread[t].pc = "write"
    /\ copy' = [copy EXCEPT ![thread[t].device] = Written(t)]
    /\ thread' = [thread EXCEPT ![t].pc = "cluster"]
    /\ UNCHANGED <<devices, clock, setvars>>

\* cluster_size: the submission has a signature; time.time().
ReadClock(t) ==
    /\ thread[t].pc = "cluster"
    /\ thread' = [thread EXCEPT ![t].pc = "record", ![t].at = clock]
    /\ UNCHANGED <<devices, copy, clock, setvars>>

Recorded(t) == thread[t].at

\* ZADD, ZREMRANGEBYSCORE, ZCARD and EXPIRE in one transaction, all of it at the
\* time read before; its answer may be lost, which is 0 too.
ClusterSize(t) ==
    /\ thread[t].pc = "record"
    /\ LET d == thread[t].device
           at == thread[t].at
           added == [bsig EXCEPT ![d] = Recorded(t)]
           earlier == met[d] # NIL /\ at < met[d]
       IN  /\ bsig' = [e \in Device |->
                 IF added[e] # NIL /\ added[e] > at - Window THEN added[e] ELSE NIL]
           /\ ends' = clock + Window
           /\ \E n \in {0, Cardinality({e \in Device : bsig'[e] # NIL})} :
                 thread' = [thread EXCEPT ![t].pc = "done", ![t].cluster = n]
           /\ met' = IF earlier THEN met ELSE [met EXCEPT ![d] = at]
           /\ outrun' = IF earlier THEN outrun \cup {d} ELSE outrun \ {d}
    /\ UNCHANGED <<devices, copy, clock>>

\* A submission without a signature, or a Redis that does not answer: 0.
NoCluster(t) ==
    /\ thread[t].pc \in {"cluster", "record"}
    /\ thread' = [thread EXCEPT ![t].pc = "done"]
    /\ UNCHANGED <<devices, copy, clock, setvars>>

\* Redis or PostgreSQL raises, or the process ends: the submission is over.
Fail(t) ==
    /\ thread[t].pc \in {"upsert", "write", "cluster", "record"}
    /\ thread' = [thread EXCEPT ![t] = NoSubmission]
    /\ UNCHANGED <<devices, copy, clock, setvars>>

\* A copy's day is over, or Redis evicts it.
Expire(d) ==
    /\ copy[d] # NIL
    /\ copy' = [copy EXCEPT ![d] = NIL]
    /\ UNCHANGED <<devices, clock, thread, setvars>>

\* Redis evicts the set, and nobody knows of whom.
EvictSet ==
    /\ bsig # NoSet
    /\ bsig' = NoSet /\ ends' = NIL
    /\ met' = NoSet /\ outrun' = {}
    /\ UNCHANGED <<devices, copy, clock, thread>>

\* Time passes; the set expires a window after its last use.
Pass ==
    /\ clock + 1 \in Times
    /\ clock' = clock + 1
    /\ IF ends # NIL /\ ends =< clock'
       THEN bsig' = NoSet /\ ends' = NIL
       ELSE UNCHANGED <<bsig, ends>>
    /\ UNCHANGED <<devices, copy, thread, met, outrun>>

DevicesNext ==
    \/ \E t \in Thread, d \in Device : LookUp(t, d)
    \/ \E t \in Thread : Upsert(t) \/ WriteThrough(t) \/ Fail(t)
    \/ \E t \in Thread : ReadClock(t) \/ ClusterSize(t) \/ NoCluster(t)
    \/ \E d \in Device : Expire(d)
    \/ EvictSet
    \/ Pass

DevicesSpec == DevicesInit /\ [][DevicesNext]_dvars
-----------------------------------------------------------------------------
(* Properties. *)

\* The copy in Redis never runs ahead of the table it copies, in whatever order
\* submissions of one device write it: a device found there has a row, so that a
\* submission told it was cached is not told it is new (service.py:28-36).
CopyBehindTable ==
    /\ \A d \in Device : copy[d] # NIL => copy[d] =< devices[d]
    /\ \A t \in Thread : thread[t].cached /\ thread[t].pc # "upsert" => thread[t].count > 1

\* However submissions are delayed between the clock and the set (velocity.py:66,
\* :69), a cluster size counts no device but those that showed the signature less
\* than a window before the time this submission read, each once however often it
\* came; and it misses none that did less than a window ago, except where Redis
\* lost the set or a device's later submission was recorded before an earlier one.
\* For a submission that is not delayed the two are the same number.
ClusterIsWindow ==
    [][\A t \in Thread : thread'[t].cluster > thread[t].cluster =>
          LET since(time) == {d \in Device : met'[d] # NIL /\ met'[d] > time - Window}
          IN  /\ thread'[t].cluster =< Cardinality(since(thread[t].at))
              /\ thread'[t].cluster >= Cardinality(since(clock) \ outrun')]_dvars
=============================================================================
