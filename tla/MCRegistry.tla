----------------------------- MODULE MCRegistry -----------------------------
(* What the gateway knows of its detectors: the registry with three slots,   *)
(* on a site of either kind: detectors on the air only, where reports come   *)
(* from any address ("radio"), or a wired input too and detectors that       *)
(* report from within maxDetector ("wired").                                 *)
EXTENDS Registry

VARIABLE site

RadioSite == INSTANCE Registry WITH WiredInput <- FALSE, StrangeReports <- TRUE
WiredSite == INSTANCE Registry WITH WiredInput <- TRUE, StrangeReports <- FALSE

SiteInit == Init /\ site \in {"radio", "wired"}

SiteNext ==
    \/ site = "radio" /\ RadioSite!Next /\ UNCHANGED site
    \/ site = "wired" /\ WiredSite!Next /\ UNCHANGED site

SiteSpec == SiteInit /\ [][SiteNext]_<<vars, site>>
=============================================================================
