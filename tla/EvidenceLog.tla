----------------------------- MODULE EvidenceLog -----------------------------
(***************************************************************************)
(* What evidence promises its readers, without transactions, locks,        *)
(* collectors or crashes: a log of sightings that only grows.  Content     *)
(* that is new is observed, and sighted for the first time, in one step;   *)
(* what is known is sighted again under another acquisition key; and       *)
(* nothing is taken from a source that is not active at that moment.       *)
(* (ingestion/service.py and the headers of repositories/observations.py   *)
(* and repositories/sightings.py)                                          *)
(***************************************************************************)
EXTENDS FiniteSets

CONSTANTS
    Commands,      \* what collectors may ask to have ingested
    Sources,
    ObservationOf(_), SightingOf(_), IdentityOf(_)

VARIABLES
    active,          \* the sources from which evidence is taken
    contents,        \* the bytes that are kept
    observed,        \* the observations, each with the time it was made first
    sighted          \* the sightings

log == <<active, contents, observed, sighted>>

Known(command) == \E row \in observed : IdentityOf(row) = IdentityOf(command)

Init == active = {} /\ contents = {} /\ observed = {} /\ sighted = {}

Observe(command) ==
    /\ command.source \in active
    /\ ~ Known(command)
    /\ contents' = contents \cup {command.content}
    /\ observed' = observed \cup {ObservationOf(command)}
    /\ sighted' = sighted \cup {SightingOf(command)}
    /\ UNCHANGED active

SightAgain(command) ==
    /\ command.source \in active
    /\ Known(command)
    /\ ~ \E row \in sighted : IdentityOf(row) = IdentityOf(command) /\ row.key = command.key
    /\ sighted' = sighted \cup {SightingOf(command)}
    /\ UNCHANGED <<active, contents, observed>>

Switch(source) ==
    /\ active' \in {active \cup {source}, active \ {source}}
    /\ UNCHANGED <<contents, observed, sighted>>

Next ==
    \/ \E command \in Commands : Observe(command) \/ SightAgain(command)
    \/ \E source \in Sources : Switch(source)

Spec == Init /\ [][Next]_log
=============================================================================
