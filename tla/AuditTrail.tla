----------------------------- MODULE AuditTrail -----------------------------
(***************************************************************************)
(* What an audit exporter promises about the items (spans) given to it,    *)
(* with no lock, buffer or file in sight.                                  *)
(*                                                                         *)
(* An item held durably for recovery is let go only once it is recorded;   *)
(* what is recorded stays recorded; an attestation speaks of recorded      *)
(* items only and is never taken back.                                     *)
(***************************************************************************)
VARIABLES
  held,      (* items a restart would find, whatever happens to the power  *)
  recorded,  (* items durably in the audit log or the quarantine file      *)
  attested   (* sets of items some checkpoint vouches for                  *)

trailVars == <<held, recorded, attested>>

(* Nothing is recorded yet; the items held are those a start found.        *)
TrailInit == recorded = {} /\ attested = {}

(* Items are taken in, recorded, or let go because they are recorded.      *)
Settle ==
  /\ recorded \subseteq recorded'
  /\ held \subseteq held' \cup recorded'
  /\ UNCHANGED attested

(* Checkpoints vouch for more sets of recorded items.                      *)
Attest ==
  /\ attested \subseteq attested'
  /\ \A set \in attested' \ attested : set \subseteq recorded
  /\ UNCHANGED <<held, recorded>>

TrailNext == Settle \/ Attest

TrailSpec == TrailInit /\ [][TrailNext]_trailVars
=============================================================================
