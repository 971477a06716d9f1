---------------------------- MODULE CyclePolicy -----------------------------
(***************************************************************************)
(* The values the cycle runs by: lead times by frequency and the hour of   *)
(* the stages (backend/app/domains/cycle/policy.py), and the time zones of *)
(* the users.                                                              *)
(***************************************************************************)
EXTENDS Integers

CONSTANTS
    Profiles,     \* generate_lead_days and draft_lead_days by frequency
    StageHour,    \* the local hour of the stages
    Jitter,       \* how much later the stages of this user run, in hours
    Zones         \* the offsets of the users' time zones, in hours

Frequencies == {"weekly", "biweekly"}

ASSUME ProfileAssumption ==
    Profiles \in [Frequencies -> [generate : 1 .. 6, draft : 1 .. 6]]
ASSUME HourAssumption ==
    StageHour \in 0 .. 23 /\ Jitter \in Nat /\ StageHour + Jitter < 24
ASSUME ZoneAssumption == Zones \subseteq Int
(* load_policy checks each lead alone; that a stage falls behind the       *)
(* delivery before it is what the values of the deployment provide.        *)
ASSUME LeadAssumption ==
    /\ Profiles["weekly"].generate < 7 /\ Profiles["biweekly"].generate < 3
    /\ \A f \in Frequencies : Profiles[f].draft < Profiles[f].generate
=============================================================================
