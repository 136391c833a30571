---------------------------- MODULE EvidenceStore ----------------------------
(***************************************************************************)
(* Evidence ingestion (src/app/v2/ingestion/service.py, the repositories   *)
(* sources, raw_payloads, observations and sightings, migrations 0003 and  *)
(* 0004): a command brings bytes from a source, which are stored once as a *)
(* payload, once per source and record as an observation, and once per     *)
(* acquisition key as a sighting of that observation.                      *)
(*                                                                         *)
(* One ingestion is one READ COMMITTED transaction: lock the source's row  *)
(* for sharing, then three INSERT .. ON CONFLICT DO NOTHING.  Such an      *)
(* insert waits for another transaction that holds its key uncommitted;    *)
(* afterwards the row is there, and is read back, or it inserts its own.   *)
(***************************************************************************)
EXTENDS Integers, FiniteSets

CONSTANTS
    Sources,       \* source keys
    Records,       \* source_record_identifier; None is one of them
    Contents,      \* bytes, identified with their hash
    Keys,          \* acquisition keys
    Times,         \* observed_time, by the collector's clock
    Descriptions,  \* the other fields that both rows keep: collector_id, collection_version
    Commands,      \* the commands collectors issue
    Collectors,    \* processes that run the tool
    None           \* SQL NULL / nothing

Command ==
    [source : Sources, record : Records, content : Contents, key : Keys,
     time : Times, described : Descriptions]

ASSUME CommandAssumption == Commands \subseteq Command

Observation ==
    [source : Sources, record : Records, content : Contents, time : Times, described : Descriptions]

Sighting == Command

VARIABLES
    sources,        \* v2.source: per key None, or is_active and is_test
    payloads,       \* committed rows of v2.raw_payload
    observations,   \* committed rows of v2.observation
    sightings,      \* committed rows of v2.observation_sighting
    ingesting,      \* per collector: its open transaction, or None
    answer          \* per collector: the last IngestionResult, None after an error

rows == <<payloads, observations, sightings>>
evidenceVars == <<sources, rows, ingesting, answer>>

-----------------------------------------------------------------------------
(* Keys and rows.                                                          *)

\* uq_observation_dedup_with_record_id and .._without_record_id.
IdentityOf(row) == <<row.source, row.record, row.content>>

SameObservation(row, other) == IdentityOf(row) = IdentityOf(other)

\* uq_observation_sighting_acquisition.
SameSighting(row, other) == SameObservation(row, other) /\ row.key = other.key

ObservationOf(command) ==
    [source |-> command.source, record |-> command.record, content |-> command.content,
     time |-> command.time, described |-> command.described]

SightingOf(command) == command

Ingestion ==
    [command : Commands, step : {"lock", "payload", "observation", "sighting", "commit"},
     newPayload : BOOLEAN, newObservation : BOOLEAN, newSighting : BOOLEAN,
     observation : Observation \cup {None}, sighting : Sighting \cup {None}]

IngestionResult ==
    [command : Commands, observation : Observation, sighting : Sighting,
     newPayload : BOOLEAN, newObservation : BOOLEAN, newSighting : BOOLEAN, differs : BOOLEAN]

ASSUME NothingAssumption == None \notin Observation \cup Sighting \cup Ingestion

Open(c) == ingesting[c] # None

At(c, step) == Open(c) /\ ingesting[c].step = step

Active(s) == sources[s] # None /\ sources[s].active

EvidenceInit ==
    /\ sources = [s \in Sources |-> None]
    /\ payloads = {} /\ observations = {} /\ sightings = {}
    /\ ingesting = [c \in Collectors |-> None]
    /\ answer = [c \in Collectors |-> None]

-----------------------------------------------------------------------------
(* Administration of sources.                                              *)

\* Create-only: registering a known key again changes nothing.
RegisterSource(s, active) ==
    /\ sources[s] = None
    /\ sources' = [sources EXCEPT ![s] = [active |-> active, test |-> FALSE]]
    /\ UNCHANGED <<rows, ingesting, answer>>

NeverLocked(s) == FALSE

\* FOR SHARE: held from the look at the source to the end of the transaction.
ShareLocked(s) ==
    \E c \in Collectors :
        Open(c) /\ ingesting[c].step # "lock" /\ ingesting[c].command.source = s

UpdateSource(s, row) ==
    /\ sources[s] # None
    /\ ~ ShareLocked(s)
    /\ sources' = [sources EXCEPT ![s] = row]
    /\ UNCHANGED <<rows, ingesting, answer>>

\* deactivate_source and reactivate_source.
SetActive(s, active) == UpdateSource(s, [sources[s] EXCEPT !.active = active])

MarkSourceAsTest(s) == UpdateSource(s, [sources[s] EXCEPT !.test = TRUE])

-----------------------------------------------------------------------------
(* ingest_evidence.                                                        *)

Advance(c, tx) ==
    /\ ingesting' = [ingesting EXCEPT ![c] = tx]
    /\ UNCHANGED <<sources, rows, answer>>

\* A request arrives.
BeginIngestion(c, command) ==
    /\ ~ Open(c)
    /\ ingesting' = [ingesting EXCEPT ![c] =
         [command |-> command, step |-> "lock", newPayload |-> FALSE, newObservation |-> FALSE,
          newSighting |-> FALSE, observation |-> None, sighting |-> None]]
    /\ answer' = [answer EXCEPT ![c] = None]
    /\ UNCHANGED <<sources, rows>>

\* get_source_by_key(lock_shared=True) finds an active source.
LockSource(c) ==
    /\ At(c, "lock") /\ Active(ingesting[c].command.source)
    /\ Advance(c, [ingesting[c] EXCEPT !.step = "payload"])

SourceRefusedKeepingRequest(c) ==
    /\ At(c, "lock") /\ ~ Active(ingesting[c].command.source)
    /\ UNCHANGED evidenceVars

\* NotFoundError, SourceInactiveError: nothing has been written.
SourceRefused(c) ==
    /\ At(c, "lock") /\ ~ Active(ingesting[c].command.source)
    /\ Advance(c, None)

\* An insert waits while another open transaction holds its key uncommitted.
WaitsFor(c, d) ==
    /\ c # d /\ Open(d)
    /\ \/ /\ At(c, "payload") /\ ingesting[d].newPayload
          /\ ingesting[d].command.content = ingesting[c].command.content
       \/ /\ At(c, "observation") /\ ingesting[d].newObservation
          /\ SameObservation(ingesting[d].command, ingesting[c].command)
       \/ /\ At(c, "sighting") /\ ingesting[d].newSighting
          /\ SameSighting(ingesting[d].command, ingesting[c].command)

Blocked(c) == \E d \in Collectors : WaitsFor(c, d)

StorePayloadOnly(c) ==
    LET tx == ingesting[c] IN
    /\ At(c, "payload") /\ ~ Blocked(c)
    /\ Advance(c, [tx EXCEPT !.step = "sighting", !.newPayload = tx.command.content \notin payloads])

StorePayload(c) ==
    LET tx == ingesting[c] IN
    /\ At(c, "payload") /\ ~ Blocked(c)
    /\ Advance(c, [tx EXCEPT !.step = "observation", !.newPayload = tx.command.content \notin payloads])

InsertObservation(c) ==
    LET tx == ingesting[c] IN
    /\ At(c, "observation") /\ ~ Blocked(c)
    /\ \A row \in observations : ~ SameObservation(row, tx.command)
    /\ Advance(c, [tx EXCEPT !.step = "sighting", !.newObservation = TRUE,
                             !.observation = ObservationOf(tx.command)])

FindObservationUnread(c) ==
    /\ At(c, "observation") /\ ~ Blocked(c)
    /\ \E row \in observations :
         /\ SameObservation(row, ingesting[c].command)
         /\ Advance(c, [ingesting[c] EXCEPT !.step = "sighting",
                                            !.observation = ObservationOf(ingesting[c].command)])

\* The conflicting observation is read back, with the fields it was stored with.
FindObservation(c) ==
    /\ At(c, "observation") /\ ~ Blocked(c)
    /\ \E row \in observations :
         /\ SameObservation(row, ingesting[c].command)
         /\ Advance(c, [ingesting[c] EXCEPT !.step = "sighting", !.observation = row])

InsertSighting(c) ==
    LET tx == ingesting[c] IN
    /\ At(c, "sighting") /\ ~ Blocked(c)
    /\ \A row \in sightings : ~ SameSighting(row, tx.command)
    /\ Advance(c, [tx EXCEPT !.step = "commit", !.newSighting = TRUE, !.sighting = SightingOf(tx.command)])

FindSighting(c) ==
    /\ At(c, "sighting") /\ ~ Blocked(c)
    /\ \E row \in sightings :
         /\ SameSighting(row, ingesting[c].command)
         /\ Advance(c, [ingesting[c] EXCEPT !.step = "commit", !.sighting = row])

\* A field of a row that was there already differs from the command.
Differs(tx) ==
    \/ ~ tx.newObservation /\ tx.observation.described # tx.command.described
    \/ ~ tx.newSighting /\ tx.sighting # SightingOf(tx.command)

ResultOf(tx) ==
    [command |-> tx.command, observation |-> tx.observation, sighting |-> tx.sighting,
     newPayload |-> tx.newPayload, newObservation |-> tx.newObservation,
     newSighting |-> tx.newSighting, differs |-> Differs(tx)]

CommitRows(c, tx) ==
    /\ payloads' = payloads \cup (IF tx.newPayload THEN {tx.command.content} ELSE {})
    /\ observations' = observations \cup (IF tx.newObservation THEN {tx.observation} ELSE {})
    /\ sightings' = sightings \cup (IF tx.newSighting THEN {tx.sighting} ELSE {})
    /\ ingesting' = [ingesting EXCEPT ![c] = None]
    /\ UNCHANGED sources

CommitBeforeSighting(c) ==
    /\ At(c, "sighting") \/ At(c, "commit")
    /\ CommitRows(c, ingesting[c])
    /\ answer' = [answer EXCEPT ![c] = IF At(c, "commit") THEN ResultOf(ingesting[c]) ELSE None]

\* The comparison with first_sighting_mismatch is never met: ChecksNeverFail.
CommitIngestion(c) ==
    /\ At(c, "commit")
    /\ CommitRows(c, ingesting[c])
    /\ answer' = [answer EXCEPT ![c] = ResultOf(ingesting[c])]

\* The process dies: everything it inserted is rolled back.
CrashIngestion(c) == Open(c) /\ Advance(c, None)

-----------------------------------------------------------------------------
Ingest(c) ==
    \/ LockSource(c) \/ SourceRefused(c) \/ StorePayload(c) \/ InsertObservation(c)
    \/ FindObservation(c) \/ InsertSighting(c) \/ FindSighting(c) \/ CommitIngestion(c)

EvidenceNext ==
    \/ \E c \in Collectors :
         \/ \E command \in Commands : BeginIngestion(c, command)
         \/ Ingest(c)
         \/ CrashIngestion(c)
    \/ \E s \in Sources :
         \/ \E active \in BOOLEAN : RegisterSource(s, active) \/ SetActive(s, active)
         \/ MarkSourceAsTest(s)

(* A request that has arrived executes its next statement, and one that    *)
(* waits for a key gets its turn if the key keeps becoming free.  Nobody   *)
(* has to issue a command, and administrators do as they like.             *)
EvidenceSpec ==
    EvidenceInit /\ [][EvidenceNext]_evidenceVars /\ \A c \in Collectors : SF_evidenceVars(Ingest(c))

-----------------------------------------------------------------------------
(* Properties.                                                             *)

(* Rows have their types, and a transaction has found or inserted exactly  *)
(* what the statements before its step store.                              *)
EvidenceTypeOK ==
    /\ sources \in [Sources -> [active : BOOLEAN, test : BOOLEAN] \cup {None}]
    /\ payloads \subseteq Contents
    /\ observations \subseteq Observation
    /\ sightings \subseteq Sighting
    /\ ingesting \in [Collectors -> Ingestion \cup {None}]
    /\ answer \in [Collectors -> IngestionResult \cup {None}]
    /\ \A c \in Collectors : Open(c) =>
         /\ ingesting[c].observation = None <=> ingesting[c].step \in {"lock", "payload", "observation"}
         /\ ingesting[c].sighting = None <=> ingesting[c].step # "commit"

(* Nothing is stored in part, although three statements store it and the   *)
(* process may die between any two: no payload without an observation, no  *)
(* observation without its payload and the sighting it was made at, no     *)
(* sighting without its observation.                                       *)
NothingInPart ==
    /\ payloads = {row.content : row \in observations}
    /\ \A row \in observations : \E first \in sightings :
         SameObservation(row, first) /\ row.time = first.time
    /\ \A row \in sightings : \E seen \in observations : SameObservation(row, seen)

(* The checks of ingest_evidence and store_observation that are thought to *)
(* be unreachable are: the payload of an observation is there when it is   *)
(* inserted, and a new observation's first sighting is new and of the same *)
(* time.                                                                   *)
ChecksNeverFail ==
    \A c \in Collectors : Open(c) =>
        /\ ingesting[c].step \notin {"lock", "payload"} =>
             ingesting[c].newPayload \/ ingesting[c].command.content \in payloads
        /\ At(c, "commit") /\ ingesting[c].newObservation =>
             ingesting[c].newSighting /\ ingesting[c].sighting.time = ingesting[c].observation.time

EvidenceIsWhole == NothingInPart /\ ChecksNeverFail

(* What a collector was told is true and stays true, whatever others       *)
(* ingested meanwhile: the rows of its answer are stored, and are those of *)
(* its command; no two collectors were told that they created the same     *)
(* row; and "no difference" means the stored fields are those it sent.     *)
AnswersAreTrue ==
    \A c \in Collectors : answer[c] # None =>
        /\ answer[c].observation \in observations /\ answer[c].sighting \in sightings
        /\ SameObservation(answer[c].observation, answer[c].command)
        /\ SameSighting(answer[c].sighting, answer[c].command)
        /\ \A d \in Collectors \ {c} : answer[d] # None =>
             /\ answer[c].newObservation /\ answer[d].newObservation =>
                  answer[c].observation # answer[d].observation
             /\ answer[c].newSighting /\ answer[d].newSighting =>
                  answer[c].sighting # answer[d].sighting
        /\ ~ answer[c].differs =>
             /\ answer[c].sighting = SightingOf(answer[c].command)
             /\ answer[c].observation.described = answer[c].command.described

(* To its readers the store is the log of EvidenceLog: evidence only       *)
(* grows, whole sightings at a time, one observation per identity and one  *)
(* sighting per key, and at the moment it appears its source is active -   *)
(* although it was looked at some statements earlier.                      *)
Log == INSTANCE EvidenceLog WITH
    active <- {s \in Sources : Active(s)},
    contents <- payloads,
    observed <- observations,
    sighted <- sightings

ImplementsEvidenceLog == Log!Spec

(* Every ingestion ends, with an answer, an error or the death of its      *)
(* process: three kinds of keys are waited for, always in the same order.  *)
IngestionsEnd == \A c \in Collectors : Open(c) ~> ~ Open(c)
=============================================================================
