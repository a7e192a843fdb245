------------------------------ MODULE Features ------------------------------
(***************************************************************************)
(* From what a visit presents to the features the rules read: the IP       *)
(* databases' answers (features/ip_intel.py), the user agent               *)
(* (features/device_info.py) and the page's signals (features/extract.py). *)
(* Features that only the models read are left out: the models' scores are *)
(* free.  A feature is an integer in tenths, so that weight (in tenths)    *)
(* times feature is in hundredths.                                         *)
(***************************************************************************)
EXTENDS Integers, FiniteSets

CONSTANT NULL       \* Python's None
CONSTANT ClusterK   \* _CLUSTER_K: so many devices with one behaviour are a farm

(***************************************************************************)
(* What the three IP databases answer for an address: `asn' and `isp' are  *)
(* the classes the code distinguishes; a database that is missing or       *)
(* raises leaves its fields NULL or "".                                    *)
(***************************************************************************)
IsMobileCarrier(a) == a.asn = "carrier" \/ (a.country = "ID" /\ "carrier" \in a.isp)

IsDatacenterProvider(a) == a.asn = "hosting" \/ "hosting" \in a.isp

EnrichIp(a) ==
  LET carrier == IsMobileCarrier(a)
      hosting == ~carrier /\ IsDatacenterProvider(a)
  IN [country    |-> a.country,
      continent  |-> a.continent,
      vpn        |-> a.proxy \in {"VPN", "TOR", "PUB", "WEB", "RES"},
      datacenter |-> hosting \/ a.proxy = "DCH" \/ a.usage \in {"DCH", "SES", "CDN"},
      carrier    |-> carrier \/ a.usage = "MOB",
      connection |-> IF a.usage \notin {"", "-"} THEN a.usage
                     ELSE IF carrier THEN "MOB" ELSE IF hosting THEN "DCH" ELSE a.usage]

(***************************************************************************)
(* The user agent as the set of words the code looks for in it.            *)
(***************************************************************************)
Os(ua, chPlatform) ==
  IF "Android" \in ua THEN "Android"
  ELSE IF ua \cap {"iPhone", "iPad", "iOS"} # {} THEN "iOS"
  ELSE IF "Windows" \in ua THEN "Windows"
  ELSE IF "Mac OS" \in ua THEN "macOS"
  ELSE IF "Linux" \in ua THEN "Linux"
  ELSE chPlatform

DeviceType(ua) ==
  IF "iPad" \in ua \/ ("Android" \in ua /\ "Mobile" \notin ua) THEN "tablet"
  ELSE IF ua \cap {"Mobile", "iPhone", "Android"} # {} THEN "mobile"
  ELSE "desktop"

ParseDeviceInfo(v) == [os |-> Os(v.ua, v.chPlatform), type |-> DeviceType(v.ua)]
-----------------------------------------------------------------------------
B(x) == IF x THEN 10 ELSE 0

ClaimsMobile(v, di) ==
  di.type \in {"mobile", "tablet"} \/ di.os \in {"Android", "iOS"} \/ v.chMobile = TRUE

(* hardware the fingerprint shows, by platform and by GPU *)
ArmPlatform(v) == v.platform = "arm"
HwIsMobile(v)  == ArmPlatform(v) \/ v.gpu = "mobile"
AppleGpu(v)    == v.gpu = "apple"

(* a region of the IANA database and the continents consistent with it;    *)
(* representatives of the table in extract.py                              *)
TzContinents == [Asia |-> {"AS"}, Europe |-> {"EU"}, Atlantic |-> {"EU", "AF", "NA", "SA"},
                 Pacific |-> {"OC", "NA"}]

TzGeoMismatch(tz, continent) ==
  /\ tz \in DOMAIN TzContinents
  /\ continent # NULL
  /\ continent \notin TzContinents[tz]

(***************************************************************************)
(* automation                                                              *)
(***************************************************************************)
AutomationScore(v) ==
  B(v.webdriver) + B(v.headless) + B(v.trusted = FALSE) + B(v.software)
    + B(v.viewport) + B(v.globals > 0)

(* a pointer that moves with no velocity is synthetic *)
NoBehavior(v) ==
  ~(v.moves > 0 /\ v.velocity > 0) /\ v.taps = 0 /\ v.gestures = 0 /\ v.interactions = 0

WebviewRisk(v) ==
  CASE v.webview = "none"  -> 0
    [] v.webview = "known" -> 3
    [] OTHER               -> 10

(* the claim to be a phone, against the fingerprint *)
UaFpInconsistent(v, di) ==
  ClaimsMobile(v, di) /\ (v.maxTouch = 0 \/ v.platform = "desktop" \/ v.chMobile = FALSE)

MouseOnTouchless(v, di) == v.moves > 0 /\ v.maxTouch = 0 /\ ClaimsMobile(v, di)

(* the claim to be a desktop, against phone hardware; touch alone says     *)
(* nothing, a laptop may have a touch screen                               *)
ClaimsDesktopButMobile(v, di) == (di.type = "desktop" \/ v.chMobile = FALSE) /\ HwIsMobile(v)

OsHwFamilyMismatch(v, di) ==
  \/ di.os = "iOS" /\ HwIsMobile(v) /\ ~AppleGpu(v)
  \/ di.os = "Android" /\ AppleGpu(v)

ColorDepthAnomaly(v) == v.colorDepth \notin {0, 24, 30, 32}

LowFpEntropy(v) == ~v.audio /\ v.fonts = 0

CampaignGeoMismatch(camp, ip) ==
  \/ camp.home # NULL /\ ip.country # NULL /\ ip.country # camp.home
  \/ camp.expectCarrier /\ ~ip.carrier

(***************************************************************************)
(* extract_features.  A number of the behaviour that is not one (the       *)
(* signals' dictionaries are not typed) raises: the result is NULL.        *)
(***************************************************************************)
ExtractFeatures(v, ip, di, camp, cluster) ==
  IF v.malformed THEN NULL
  ELSE [auto_webdriver               |-> B(v.webdriver),
        auto_headless                |-> B(v.headless),
        auto_istrusted_false         |-> B(v.trusted = FALSE),
        auto_software_render         |-> B(v.software),
        auto_globals_count           |-> 10 * v.globals,
        automation_score             |-> AutomationScore(v),
        no_behavior                  |-> B(NoBehavior(v)),
        webview_risk                 |-> WebviewRisk(v),
        ip_is_datacenter             |-> B(ip.datacenter),
        ip_is_vpn_proxy_tor          |-> B(ip.vpn),
        ip_is_mobile_carrier         |-> B(ip.carrier),
        ip_tz_geo_mismatch           |-> B(TzGeoMismatch(v.tz, ip.continent)),
        ua_fp_inconsistent           |-> B(UaFpInconsistent(v, di)),
        campaign_geo_mismatch        |-> B(CampaignGeoMismatch(camp, ip)),
        color_depth_anomaly          |-> B(ColorDepthAnomaly(v)),
        mouse_on_touchless           |-> B(MouseOnTouchless(v, di)),
        fp_claims_desktop_but_mobile |-> B(ClaimsDesktopButMobile(v, di)),
        os_hw_family_mismatch        |-> B(OsHwFamilyMismatch(v, di)),
        low_fp_entropy               |-> B(LowFpEntropy(v)),
        behavior_cluster             |-> B(cluster >= ClusterK)]
=============================================================================
