----------------------------- MODULE TrxVerdict -----------------------------
(***************************************************************************)
(* What the scoring API promises about a transaction: it is decided at     *)
(* most once, a one-time URL is asked of the CP only after an allow, and   *)
(* every answer repeats the decision; a redirect needs a URL.              *)
(***************************************************************************)
CONSTANT Trx

VARIABLES
    verdict,   \* "none" until the transaction is decided
    minted,    \* transactions the CP made out a URL for
    told       \* answers clients may have got

vars == <<verdict, minted, told>>

Init ==
    /\ verdict = [t \in Trx |-> "none"]
    /\ minted = {}
    /\ told = {}

Decide(t) ==
    /\ verdict[t] = "none"
    /\ \E v \in {"allow", "block"} : verdict' = [verdict EXCEPT ![t] = v]
    /\ UNCHANGED <<minted, told>>

Mint(t) ==
    /\ verdict[t] = "allow"
    /\ minted' = minted \cup {t}
    /\ UNCHANGED <<verdict, told>>

Tell(t, kind) ==
    /\ told' = told \cup {[trx |-> t, kind |-> kind]}
    /\ UNCHANGED <<verdict, minted>>

TellBlock(t) == verdict[t] = "block" /\ Tell(t, "block")
TellRedirect(t) == verdict[t] = "allow" /\ t \in minted /\ Tell(t, "redirect")
TellUnavailable(t) == verdict[t] = "allow" /\ Tell(t, "unavailable")

Next ==
    \E t \in Trx :
        Decide(t) \/ Mint(t) \/ TellBlock(t) \/ TellRedirect(t) \/ TellUnavailable(t)

Spec == Init /\ [][Next]_vars
=============================================================================
