------------------------------ MODULE Dashboard -----------------------------
(***************************************************************************)
(* The dashboard: three pages, of which one is open at a time.  Following a  *)
(* link of Nav (components/Nav.tsx) unmounts a page, whatever it was doing,  *)
(* and mounts another in its first state.                                    *)
(***************************************************************************)
EXTENDS PoolPage, TwoDevices, Details

VARIABLE page

siteVars == <<page, vars, chainVars, detailVars>>

\* A page that is not open has no state: it is kept in its first one.
PoolPageOpen == page = "/" /\ UNCHANGED <<page, chainVars, detailVars>>
TwoDevicesOpen == page = "/two-devices" /\ UNCHANGED <<page, vars, detailVars>>
DetailsOpen == page = "/details" /\ UNCHANGED <<page, vars, chainVars>>

SiteInit ==
  /\ page \in {"/", "/two-devices", "/details"}
  /\ Init /\ ChainInit /\ DetailsInit

OnPoolPage ==
  \/ PoolPageOpen /\ PictureArrives
  \/ \E crash \in BOOLEAN : PoolPageOpen /\ Ask(crash)
  \/ PoolPageOpen /\ CrashTimer
  \/ PoolPageOpen /\ DeviceSilent
  \/ PoolPageOpen /\ Answered
  \/ PoolPageOpen /\ Failed
  \/ \E i \in Plays : PoolPageOpen /\ ShowStep(i)
  \/ \E i \in Plays : PoolPageOpen /\ Cancelled(i)
  \/ \E i \in Plays : PoolPageOpen /\ PlayEnds(i)

OnTwoDevices ==
  \/ TwoDevicesOpen /\ TopologyAnswered
  \/ TwoDevicesOpen /\ Retry
  \/ \E q \in Questions : TwoDevicesOpen /\ RunChain(q)
  \/ TwoDevicesOpen /\ GenerationArrives
  \/ TwoDevicesOpen /\ GenerationFails
  \/ TwoDevicesOpen /\ ReplayAgain
  \/ \E i \in Replays : TwoDevicesOpen /\ ChainShowStep(i)
  \/ \E i \in Replays : TwoDevicesOpen /\ ChainCancelled(i)
  \/ \E i \in Replays : TwoDevicesOpen /\ ChainPlayEnds(i)

OnDetails ==
  \/ DetailsOpen /\ DetailsTopology
  \/ DetailsOpen /\ RefreshTopology
  \/ \E compare \in BOOLEAN : DetailsOpen /\ RunDetails(compare)
  \/ DetailsOpen /\ Compared
  \/ DetailsOpen /\ Generated
  \/ DetailsOpen /\ DetailsFail

\* A link is followed: every page is in its first state again.
Follow(to) ==
  /\ page # to
  /\ page' = to
  /\ PoolMounts /\ ChainMounts /\ DetailsMounts

SiteNext ==
  \/ OnPoolPage
  \/ OnTwoDevices
  \/ OnDetails
  \/ \E to \in {"/", "/two-devices", "/details"} : Follow(to)

SiteSpec == SiteInit /\ [][SiteNext]_siteVars

\* While a page stays open, its requests to the pool end and its replays go
\* on.  (A request to the single-machine API has no timeout: lib/api.ts.)
ReplayStep ==
  \/ PoolPageOpen /\ \E i \in Plays : PlayStep(i)
  \/ TwoDevicesOpen /\ \E i \in Replays : ChainPlayStep(i)

SiteFairness == WF_siteVars(PoolPageOpen /\ AskStep) /\ WF_siteVars(ReplayStep)

SiteFairSpec == SiteSpec /\ SiteFairness

-----------------------------------------------------------------------------
\* Every question to the pool is answered or fails, and every replay ends or
\* gives way to a new question or to another page.
EveryRunEnds ==
  /\ Running ~> ~Running
  /\ (phase = "playing" \/ chainPhase = "playing") ~> (phase # "playing" /\ chainPhase # "playing")
=============================================================================
