------------------------- MODULE EvidenceStoreProofs -------------------------
(***************************************************************************)
(* Theorems about EvidenceStore, for every set of sources, records,        *)
(* contents, commands and collectors: evidence is never stored in part,    *)
(* answers are true, and the store implements EvidenceLog.                 *)
(***************************************************************************)
EXTENDS EvidenceStore, TLAPS

-----------------------------------------------------------------------------
(* The inductive invariant.                                                *)

\* The unique indexes.
OneRowPerKey ==
    /\ \A row, other \in observations : SameObservation(row, other) => row = other
    /\ \A row, other \in sightings : SameSighting(row, other) => row = other

\* What a transaction has inserted is not in the tables, what it has found is;
\* a new payload comes with a new observation, and that with a new sighting.
TxSound(tx) ==
    /\ tx.step # "lock" => Active(tx.command.source)
    /\ tx.newPayload => tx.step \notin {"lock", "payload"} /\ tx.command.content \notin payloads
    /\ tx.newObservation =>
         /\ tx.step \in {"sighting", "commit"}
         /\ \A row \in observations : ~ SameObservation(row, tx.command)
    /\ tx.newSighting =>
         /\ tx.step = "commit"
         /\ \A row \in sightings : ~ SameSighting(row, tx.command)
    /\ tx.step \in {"observation", "sighting", "commit"} =>
         tx.newPayload \/ tx.command.content \in payloads
    /\ tx.step \in {"sighting", "commit"} =>
         /\ tx.newPayload => tx.newObservation
         /\ tx.newObservation => tx.observation = ObservationOf(tx.command)
         /\ ~ tx.newObservation =>
              tx.observation \in observations /\ SameObservation(tx.observation, tx.command)
    /\ tx.step = "commit" =>
         /\ tx.newObservation => tx.newSighting
         /\ tx.newSighting => tx.sighting = SightingOf(tx.command)
         /\ ~ tx.newSighting =>
              tx.sighting \in sightings /\ SameSighting(tx.sighting, tx.command)

\* Two transactions have not inserted the same key.
Apart(tx, other) ==
    /\ tx.newPayload /\ other.newPayload => tx.command.content # other.command.content
    /\ tx.newObservation /\ other.newObservation => ~ SameObservation(tx.command, other.command)
    /\ tx.newSighting /\ other.newSighting => ~ SameSighting(tx.command, other.command)

TransactionsSound == \A c \in Collectors : Open(c) => TxSound(ingesting[c])

TransactionsApart ==
    \A c, d \in Collectors : c # d /\ Open(c) /\ Open(d) => Apart(ingesting[c], ingesting[d])

IInv ==
    /\ EvidenceTypeOK
    /\ OneRowPerKey
    /\ TransactionsSound
    /\ TransactionsApart
    /\ NothingInPart
    /\ AnswersAreTrue

-----------------------------------------------------------------------------
(* Types.                                                                  *)

TxTyped(tx) ==
    /\ tx \in Ingestion
    /\ tx.observation = None <=> tx.step \in {"lock", "payload", "observation"}
    /\ tx.sighting = None <=> tx.step # "commit"

LEMMA OpenTyped ==
    ASSUME EvidenceTypeOK, NEW c \in Collectors, Open(c)
    PROVE  /\ TxTyped(ingesting[c])
           /\ ingesting[c].command \in Command /\ ingesting[c].command \in Commands
           /\ ObservationOf(ingesting[c].command) \in Observation
           /\ SightingOf(ingesting[c].command) \in Sighting
  <1>1. ingesting[c] \in Ingestion
    BY DEF EvidenceTypeOK, Open
  <1>2. ingesting[c].command \in Commands
    BY <1>1 DEF Ingestion
  <1>3. ingesting[c].command \in Command
    BY <1>2, CommandAssumption
  <1>4. ObservationOf(ingesting[c].command) \in Observation
    BY <1>3 DEF ObservationOf, Command, Observation
  <1> QED
    BY <1>1, <1>2, <1>3, <1>4 DEF EvidenceTypeOK, TxTyped, SightingOf, Sighting

-----------------------------------------------------------------------------
(* A step of one transaction that writes nothing for others to see.        *)

LEMMA AdvancePreserves ==
    ASSUME IInv, NEW c \in Collectors, NEW tx,
           ingesting' = [ingesting EXCEPT ![c] = tx],
           UNCHANGED <<sources, rows>>,
           tx # None => TxTyped(tx) /\ TxSound(tx),
           tx # None => \A d \in Collectors : d # c /\ Open(d) => Apart(tx, ingesting[d]),
           answer' \in {answer, [answer EXCEPT ![c] = None]}
    PROVE  IInv'
  <1>1. /\ ingesting' \in [Collectors -> Ingestion \cup {None}] /\ ingesting'[c] = tx
        /\ \A d \in Collectors \ {c} : ingesting'[d] = ingesting[d]
    BY DEF IInv, EvidenceTypeOK, TxTyped
  <1>2. UNCHANGED <<sources, payloads, observations, sightings>>
    BY DEF rows
  <1>3. /\ answer' \in [Collectors -> IngestionResult \cup {None}]
        /\ \A d \in Collectors : answer'[d] # None => answer'[d] = answer[d]
    BY DEF IInv, EvidenceTypeOK
  <1>4. EvidenceTypeOK'
    BY <1>1, <1>2, <1>3 DEF IInv, EvidenceTypeOK, Open, TxTyped
  <1>5. OneRowPerKey' /\ NothingInPart'
    BY <1>2 DEF IInv, OneRowPerKey, NothingInPart, SameObservation, SameSighting, IdentityOf
  <1>6. TransactionsSound'
    BY <1>1, <1>2 DEF IInv, TransactionsSound, TxSound, Open, Active
  <1>7. TransactionsApart'
    BY <1>1 DEF IInv, TransactionsApart, Apart, Open, SameObservation, SameSighting, IdentityOf
  <1>8. AnswersAreTrue'
    BY <1>2, <1>3 DEF IInv, AnswersAreTrue
  <1> QED
    BY <1>4, <1>5, <1>6, <1>7, <1>8 DEF IInv

LEMMA BeginPreserves ==
    ASSUME IInv, NEW c \in Collectors, NEW command \in Commands, BeginIngestion(c, command)
    PROVE  IInv'
  <1> DEFINE tx == [command |-> command, step |-> "lock", newPayload |-> FALSE,
                    newObservation |-> FALSE, newSighting |-> FALSE,
                    observation |-> None, sighting |-> None]
  <1>1. TxTyped(tx)
    BY DEF TxTyped, Ingestion
  <1>2. TxSound(tx) /\ \A d \in Collectors : Apart(tx, ingesting[d])
    BY DEF TxSound, Apart
  <1>3. /\ ingesting' = [ingesting EXCEPT ![c] = tx] /\ UNCHANGED <<sources, rows>>
        /\ answer' = [answer EXCEPT ![c] = None]
    BY DEF BeginIngestion
  <1> QED
    BY <1>1, <1>2, <1>3, AdvancePreserves

\* The request is refused, or its process dies.
LEMMA GonePreserves ==
    ASSUME IInv, NEW c \in Collectors, Advance(c, None)
    PROVE  IInv'
  BY AdvancePreserves DEF Advance

\* What a statement of c starts from.
LEMMA Before ==
    ASSUME IInv, NEW c \in Collectors, Open(c)
    PROVE  /\ TxTyped(ingesting[c]) /\ TxSound(ingesting[c])
           /\ \A d \in Collectors : d # c /\ Open(d) => Apart(ingesting[c], ingesting[d])
           /\ ObservationOf(ingesting[c].command) \in Observation
           /\ SightingOf(ingesting[c].command) \in Sighting
  BY OpenTyped DEF IInv, TransactionsSound, TransactionsApart

LEMMA LockPreserves ==
    ASSUME IInv, NEW c \in Collectors, LockSource(c)
    PROVE  IInv'
  <1> DEFINE old == ingesting[c]
             tx == [old EXCEPT !.step = "payload"]
  <1>1. /\ TxTyped(old) /\ TxSound(old) /\ old.step = "lock" /\ Active(old.command.source)
        /\ \A d \in Collectors : d # c /\ Open(d) => Apart(old, ingesting[d])
    BY Before DEF LockSource, At
  <1>2. TxTyped(tx)
    BY <1>1 DEF TxTyped, Ingestion
  <1>3. /\ tx.step = "payload" /\ tx.command = old.command /\ tx.newPayload = old.newPayload
        /\ tx.newObservation = old.newObservation /\ tx.newSighting = old.newSighting
    BY <1>1 DEF TxTyped, Ingestion
  <1>4. TxSound(tx)
    BY <1>1, <1>3 DEF TxSound
  <1>5. \A d \in Collectors : d # c /\ Open(d) => Apart(tx, ingesting[d])
    BY <1>1, <1>3 DEF Apart
  <1> QED
    BY <1>2, <1>4, <1>5, AdvancePreserves DEF LockSource, Advance

LEMMA PayloadPreserves ==
    ASSUME IInv, NEW c \in Collectors, StorePayload(c)
    PROVE  IInv'
  <1> DEFINE old == ingesting[c]
             tx == [old EXCEPT !.step = "observation", !.newPayload = old.command.content \notin payloads]
  <1>1. /\ TxTyped(old) /\ TxSound(old) /\ old.step = "payload"
        /\ \A d \in Collectors : d # c /\ Open(d) => Apart(old, ingesting[d])
    BY Before DEF StorePayload, At
  <1>2. TxTyped(tx)
    BY <1>1 DEF TxTyped, Ingestion
  <1>3. /\ tx.step = "observation" /\ tx.command = old.command
        /\ tx.newPayload <=> old.command.content \notin payloads
        /\ tx.newObservation = old.newObservation /\ tx.newSighting = old.newSighting
    BY <1>1 DEF TxTyped, Ingestion
  <1>4. TxSound(tx)
    BY <1>1, <1>3 DEF TxSound
  <1>5. ASSUME NEW d \in Collectors, d # c, Open(d)
        PROVE  Apart(tx, ingesting[d])
    <2>1. ingesting[d].newPayload => ingesting[d].command.content # old.command.content
      BY <1>5 DEF StorePayload, Blocked, WaitsFor
    <2> QED
      BY <1>1, <1>3, <1>5, <2>1 DEF Apart
  <1> QED
    BY <1>2, <1>4, <1>5, AdvancePreserves DEF StorePayload, Advance

LEMMA InsertObservationPreserves ==
    ASSUME IInv, NEW c \in Collectors, InsertObservation(c)
    PROVE  IInv'
  <1> DEFINE old == ingesting[c]
             new == ObservationOf(old.command)
             tx == [old EXCEPT !.step = "sighting", !.newObservation = TRUE, !.observation = new]
  <1>1. /\ TxTyped(old) /\ TxSound(old) /\ old.step = "observation" /\ new \in Observation
        /\ \A d \in Collectors : d # c /\ Open(d) => Apart(old, ingesting[d])
        /\ \A row \in observations : ~ SameObservation(row, old.command)
    BY Before DEF InsertObservation, At
  <1>2. TxTyped(tx)
    BY <1>1, NothingAssumption DEF TxTyped, Ingestion
  <1>3. /\ tx.step = "sighting" /\ tx.command = old.command /\ tx.newPayload = old.newPayload
        /\ tx.newObservation = TRUE /\ tx.newSighting = old.newSighting /\ tx.observation = new
    BY <1>1 DEF TxTyped, Ingestion
  <1>4. TxSound(tx)
    BY <1>1, <1>3 DEF TxSound
  <1>5. ASSUME NEW d \in Collectors, d # c, Open(d)
        PROVE  Apart(tx, ingesting[d])
    <2>1. ingesting[d].newObservation => ~ SameObservation(old.command, ingesting[d].command)
      BY <1>5 DEF InsertObservation, Blocked, WaitsFor, SameObservation
    <2> QED
      BY <1>1, <1>3, <1>5, <2>1 DEF Apart
  <1> QED
    BY <1>2, <1>4, <1>5, AdvancePreserves DEF InsertObservation, Advance

LEMMA FindObservationPreserves ==
    ASSUME IInv, NEW c \in Collectors, FindObservation(c)
    PROVE  IInv'
  <1> PICK row \in observations :
        /\ SameObservation(row, ingesting[c].command)
        /\ Advance(c, [ingesting[c] EXCEPT !.step = "sighting", !.observation = row])
    BY DEF FindObservation
  <1> DEFINE old == ingesting[c]
             tx == [old EXCEPT !.step = "sighting", !.observation = row]
  <1>1. /\ TxTyped(old) /\ TxSound(old) /\ old.step = "observation" /\ row \in Observation
        /\ \A d \in Collectors : d # c /\ Open(d) => Apart(old, ingesting[d])
    BY Before DEF FindObservation, At, IInv, EvidenceTypeOK
  <1>2. TxTyped(tx)
    BY <1>1, NothingAssumption DEF TxTyped, Ingestion
  <1>3. /\ tx.step = "sighting" /\ tx.command = old.command /\ tx.newPayload = old.newPayload
        /\ tx.newObservation = old.newObservation /\ tx.newSighting = old.newSighting
        /\ tx.observation = row
    BY <1>1 DEF TxTyped, Ingestion
  <1>4. ~ old.newPayload
    <2>1. row.content = old.command.content
      BY DEF SameObservation, IdentityOf
    <2>2. row.content \in payloads
      BY DEF IInv, NothingInPart
    <2> QED
      BY <1>1, <2>1, <2>2 DEF TxSound
  <1>5. TxSound(tx)
    BY <1>1, <1>3, <1>4 DEF TxSound
  <1>6. \A d \in Collectors : d # c /\ Open(d) => Apart(tx, ingesting[d])
    BY <1>1, <1>3 DEF Apart
  <1> QED
    BY <1>2, <1>5, <1>6, AdvancePreserves DEF Advance

LEMMA InsertSightingPreserves ==
    ASSUME IInv, NEW c \in Collectors, InsertSighting(c)
    PROVE  IInv'
  <1> DEFINE old == ingesting[c]
             new == SightingOf(old.command)
             tx == [old EXCEPT !.step = "commit", !.newSighting = TRUE, !.sighting = new]
  <1>1. /\ TxTyped(old) /\ TxSound(old) /\ old.step = "sighting" /\ new \in Sighting
        /\ \A d \in Collectors : d # c /\ Open(d) => Apart(old, ingesting[d])
        /\ \A row \in sightings : ~ SameSighting(row, old.command)
    BY Before DEF InsertSighting, At
  <1>2. TxTyped(tx)
    BY <1>1, NothingAssumption DEF TxTyped, Ingestion
  <1>3. /\ tx.step = "commit" /\ tx.command = old.command /\ tx.newPayload = old.newPayload
        /\ tx.newObservation = old.newObservation /\ tx.newSighting = TRUE
        /\ tx.observation = old.observation /\ tx.sighting = new
    BY <1>1 DEF TxTyped, Ingestion
  <1>4. TxSound(tx)
    BY <1>1, <1>3 DEF TxSound
  <1>5. ASSUME NEW d \in Collectors, d # c, Open(d)
        PROVE  Apart(tx, ingesting[d])
    <2>1. ingesting[d].newSighting => ~ SameSighting(old.command, ingesting[d].command)
      BY <1>5 DEF InsertSighting, Blocked, WaitsFor, SameSighting, SameObservation
    <2> QED
      BY <1>1, <1>3, <1>5, <2>1 DEF Apart
  <1> QED
    BY <1>2, <1>4, <1>5, AdvancePreserves DEF InsertSighting, Advance

LEMMA FindSightingPreserves ==
    ASSUME IInv, NEW c \in Collectors, FindSighting(c)
    PROVE  IInv'
  <1> PICK row \in sightings :
        /\ SameSighting(row, ingesting[c].command)
        /\ Advance(c, [ingesting[c] EXCEPT !.step = "commit", !.sighting = row])
    BY DEF FindSighting
  <1> DEFINE old == ingesting[c]
             tx == [old EXCEPT !.step = "commit", !.sighting = row]
  <1>1. /\ TxTyped(old) /\ TxSound(old) /\ old.step = "sighting" /\ row \in Sighting
        /\ \A d \in Collectors : d # c /\ Open(d) => Apart(old, ingesting[d])
    BY Before DEF FindSighting, At, IInv, EvidenceTypeOK
  <1>2. TxTyped(tx)
    BY <1>1, NothingAssumption DEF TxTyped, Ingestion
  <1>3. /\ tx.step = "commit" /\ tx.command = old.command /\ tx.newPayload = old.newPayload
        /\ tx.newObservation = old.newObservation /\ tx.newSighting = old.newSighting
        /\ tx.observation = old.observation /\ tx.sighting = row
    BY <1>1 DEF TxTyped, Ingestion
  <1>4. ~ old.newObservation
    <2>1. PICK seen \in observations : SameObservation(row, seen)
      BY DEF IInv, NothingInPart
    <2>2. SameObservation(seen, old.command)
      BY <2>1 DEF SameSighting, SameObservation
    <2> QED
      BY <1>1, <2>2 DEF TxSound
  <1>5. TxSound(tx)
    BY <1>1, <1>3, <1>4 DEF TxSound
  <1>6. \A d \in Collectors : d # c /\ Open(d) => Apart(tx, ingesting[d])
    BY <1>1, <1>3 DEF Apart
  <1> QED
    BY <1>2, <1>5, <1>6, AdvancePreserves DEF Advance

-----------------------------------------------------------------------------
(* The commit.                                                             *)

\* The rows of the transaction are in the tables afterwards, and only they are
\* new.
LEMMA Committed ==
    ASSUME IInv, NEW c \in Collectors, CommitIngestion(c), NEW tx, tx = ingesting[c]
    PROVE  /\ TxTyped(tx) /\ TxSound(tx) /\ tx.step = "commit" /\ tx.command \in Commands
           /\ tx.command \in Command
           /\ tx.observation \in Observation /\ tx.sighting \in Sighting
           /\ SameObservation(tx.observation, tx.command) /\ SameSighting(tx.sighting, tx.command)
           /\ payloads' = payloads \cup {tx.command.content}
           /\ observations' = observations \cup {tx.observation}
           /\ sightings' = sightings \cup {tx.sighting}
           /\ ~ tx.newPayload => payloads' = payloads
           /\ ~ tx.newObservation => observations' = observations
           /\ ~ tx.newSighting => sightings' = sightings
           /\ ingesting' = [ingesting EXCEPT ![c] = None] /\ UNCHANGED sources
           /\ answer' = [answer EXCEPT ![c] = ResultOf(tx)]
  <1>1. /\ TxTyped(tx) /\ TxSound(tx) /\ tx.step = "commit" /\ tx.command \in Commands
        /\ tx.command \in Command
    BY Before, OpenTyped DEF CommitIngestion, At, IInv
  <1>2. tx.observation \in Observation /\ tx.sighting \in Sighting
    BY <1>1 DEF TxTyped, Ingestion
  <1>3. SameObservation(tx.observation, tx.command)
    BY <1>1 DEF TxSound, SameObservation, IdentityOf, ObservationOf
  <1>4. SameSighting(tx.sighting, tx.command)
    BY <1>1 DEF TxSound, SameSighting, SameObservation, IdentityOf, SightingOf
  <1>5. /\ payloads' = payloads \cup (IF tx.newPayload THEN {tx.command.content} ELSE {})
        /\ observations' = observations \cup (IF tx.newObservation THEN {tx.observation} ELSE {})
        /\ sightings' = sightings \cup (IF tx.newSighting THEN {tx.sighting} ELSE {})
        /\ ingesting' = [ingesting EXCEPT ![c] = None] /\ UNCHANGED sources
        /\ answer' = [answer EXCEPT ![c] = ResultOf(tx)]
    BY DEF CommitIngestion, CommitRows
  <1>6. payloads' = payloads \cup {tx.command.content} /\ (~ tx.newPayload => payloads' = payloads)
    BY <1>1, <1>5 DEF TxSound
  <1>7. /\ observations' = observations \cup {tx.observation}
        /\ ~ tx.newObservation => observations' = observations
    BY <1>1, <1>5 DEF TxSound
  <1>8. /\ sightings' = sightings \cup {tx.sighting}
        /\ ~ tx.newSighting => sightings' = sightings
    BY <1>1, <1>5 DEF TxSound
  <1> QED
    BY <1>1, <1>2, <1>3, <1>4, <1>5, <1>6, <1>7, <1>8

LEMMA CommitPreserves ==
    ASSUME IInv, NEW c \in Collectors, CommitIngestion(c)
    PROVE  IInv'
  <1> PICK tx : tx = ingesting[c]
    OBVIOUS
  <1>1. /\ TxTyped(tx) /\ TxSound(tx) /\ tx.step = "commit" /\ tx.command \in Commands
        /\ tx.command \in Command
        /\ tx.observation \in Observation /\ tx.sighting \in Sighting
        /\ SameObservation(tx.observation, tx.command) /\ SameSighting(tx.sighting, tx.command)
    BY Committed
  <1>2. /\ payloads' = payloads \cup {tx.command.content}
        /\ observations' = observations \cup {tx.observation}
        /\ sightings' = sightings \cup {tx.sighting}
        /\ ~ tx.newPayload => payloads' = payloads
        /\ ~ tx.newObservation => observations' = observations
        /\ ~ tx.newSighting => sightings' = sightings
        /\ UNCHANGED sources
    BY Committed
  <1>3. /\ ingesting' \in [Collectors -> Ingestion \cup {None}] /\ ingesting'[c] = None
        /\ \A d \in Collectors \ {c} : ingesting'[d] = ingesting[d]
    BY Committed DEF IInv, EvidenceTypeOK
  <1>4. ResultOf(tx) \in IngestionResult
    <2>1. Differs(tx) \in BOOLEAN
      BY DEF Differs
    <2> QED
      BY <1>1, <2>1 DEF ResultOf, IngestionResult, TxTyped, Ingestion
  <1>5. /\ answer' \in [Collectors -> IngestionResult \cup {None}] /\ answer'[c] = ResultOf(tx)
        /\ \A d \in Collectors \ {c} : answer'[d] = answer[d]
    BY <1>4, Committed DEF IInv, EvidenceTypeOK
  <1>6. Open(c) /\ \A d \in Collectors : Open(d)' => d # c /\ Open(d) /\ ingesting'[d] = ingesting[d]
    BY <1>3 DEF Open, CommitIngestion, At
  <1>7. EvidenceTypeOK'
    <2>1. payloads' \subseteq Contents /\ observations' \subseteq Observation /\ sightings' \subseteq Sighting
      BY <1>1, <1>2 DEF IInv, EvidenceTypeOK, Command
    <2> QED
      BY <1>2, <1>3, <1>5, <1>6, <2>1 DEF IInv, EvidenceTypeOK
  <1>8. OneRowPerKey'
    <2>1. \A row, other \in observations' : SameObservation(row, other) => row = other
      <3>1. CASE tx.newObservation
        <4>1. \A row \in observations : ~ SameObservation(row, tx.observation)
          BY <1>1, <3>1 DEF TxSound, SameObservation
        <4> QED
          BY <1>2, <4>1 DEF IInv, OneRowPerKey, SameObservation
      <3>2. CASE ~ tx.newObservation
        BY <1>2, <3>2 DEF IInv, OneRowPerKey
      <3> QED
        BY <3>1, <3>2
    <2>2. \A row, other \in sightings' : SameSighting(row, other) => row = other
      <3>1. CASE tx.newSighting
        <4>1. \A row \in sightings : ~ SameSighting(row, tx.sighting)
          BY <1>1, <3>1 DEF TxSound, SameSighting, SameObservation
        <4> QED
          BY <1>2, <4>1 DEF IInv, OneRowPerKey, SameSighting, SameObservation
      <3>2. CASE ~ tx.newSighting
        BY <1>2, <3>2 DEF IInv, OneRowPerKey
      <3> QED
        BY <3>1, <3>2
    <2> QED
      BY <2>1, <2>2 DEF OneRowPerKey, SameObservation, SameSighting, IdentityOf
  <1>9. TransactionsSound'
    <2> SUFFICES ASSUME NEW d \in Collectors, Open(d)'
                 PROVE  TxSound(ingesting[d])'
      BY DEF TransactionsSound
    <2> PICK other : other = ingesting[d]
      OBVIOUS
    <2>1. d # c /\ Open(d) /\ ingesting'[d] = other
      BY <1>6
    <2>2. TxSound(other) /\ Apart(tx, other)
      BY <1>6, <2>1 DEF IInv, TransactionsSound, TransactionsApart
    <2>3. other.newPayload => other.command.content \notin payloads'
      BY <1>2, <2>2 DEF TxSound, Apart
    <2>4. other.newObservation => \A row \in observations' : ~ SameObservation(row, other.command)
      BY <1>1, <1>2, <2>2 DEF TxSound, Apart, SameObservation
    <2>5. other.newSighting => \A row \in sightings' : ~ SameSighting(row, other.command)
      BY <1>1, <1>2, <2>2 DEF TxSound, Apart, SameSighting, SameObservation
    <2>6. /\ payloads \subseteq payloads' /\ observations \subseteq observations'
          /\ sightings \subseteq sightings'
      BY <1>2
    <2> QED
      BY <1>2, <2>1, <2>2, <2>3, <2>4, <2>5, <2>6 DEF TxSound, Active
  <1>10. TransactionsApart'
    BY <1>6 DEF IInv, TransactionsApart, Apart
  <1>11. NothingInPart'
    <2>1. tx.observation.content = tx.command.content
      BY <1>1 DEF SameObservation, IdentityOf
    <2>2. payloads' = {row.content : row \in observations'}
      BY <1>2, <2>1 DEF IInv, NothingInPart
    <2>3. \E first \in sightings' :
            SameObservation(tx.observation, first) /\ tx.observation.time = first.time
      <3>1. CASE tx.newObservation
        <4>1. tx.observation = ObservationOf(tx.command) /\ tx.sighting = tx.command
          BY <1>1, <3>1 DEF TxSound, SightingOf
        <4>2. tx.observation.time = tx.sighting.time /\ SameObservation(tx.observation, tx.sighting)
          BY <1>1, <4>1 DEF ObservationOf
        <4> QED
          BY <1>2, <4>2
      <3>2. CASE ~ tx.newObservation
        BY <1>1, <1>2, <3>2 DEF TxSound, IInv, NothingInPart
      <3> QED
        BY <3>1, <3>2
    <2>4. \A row \in observations' : \E first \in sightings' :
            SameObservation(row, first) /\ row.time = first.time
      BY <1>2, <2>3 DEF IInv, NothingInPart
    <2>5. SameObservation(tx.sighting, tx.observation)
      BY <1>1 DEF SameSighting, SameObservation
    <2>6. \A row \in sightings' : \E seen \in observations' : SameObservation(row, seen)
      BY <1>2, <2>5 DEF IInv, NothingInPart
    <2> QED
      BY <2>2, <2>4, <2>6 DEF NothingInPart, SameObservation, IdentityOf
  <1>12. AnswersAreTrue'
    <2> PICK result : result = ResultOf(tx)
      OBVIOUS
    <2>1. /\ result.command = tx.command /\ result.observation = tx.observation
          /\ result.sighting = tx.sighting /\ result.newObservation = tx.newObservation
          /\ result.newSighting = tx.newSighting /\ (result.differs <=> Differs(tx))
      BY DEF ResultOf
    <2>2. result.observation \in observations' /\ result.sighting \in sightings'
      BY <1>2, <2>1
    <2>3. SameObservation(result.observation, result.command) /\ SameSighting(result.sighting, result.command)
      BY <1>1, <2>1
    <2>4. ~ result.differs =>
            /\ result.sighting = SightingOf(result.command)
            /\ result.observation.described = result.command.described
      BY <1>1, <2>1 DEF TxSound, Differs, ObservationOf, TxTyped, Ingestion
    <2>5. ASSUME NEW d \in Collectors \ {c}, answer[d] # None
          PROVE  /\ result.newObservation => result.observation # answer[d].observation
                 /\ result.newSighting => result.sighting # answer[d].sighting
      <3>1. answer[d].observation \in observations /\ answer[d].sighting \in sightings
        BY <2>5 DEF IInv, AnswersAreTrue
      <3> QED
        BY <1>1, <2>1, <3>1 DEF TxSound
    <2>6. \A d \in Collectors : answer'[d] = IF d = c THEN result ELSE answer[d]
      BY <1>5
    <2> SUFFICES ASSUME NEW d \in Collectors, answer'[d] # None
                 PROVE  /\ answer'[d].observation \in observations' /\ answer'[d].sighting \in sightings'
                        /\ SameObservation(answer'[d].observation, answer'[d].command)
                        /\ SameSighting(answer'[d].sighting, answer'[d].command)
                        /\ \A e \in Collectors \ {d} : answer'[e] # None =>
                             /\ answer'[d].newObservation /\ answer'[e].newObservation =>
                                  answer'[d].observation # answer'[e].observation
                             /\ answer'[d].newSighting /\ answer'[e].newSighting =>
                                  answer'[d].sighting # answer'[e].sighting
                        /\ ~ answer'[d].differs =>
                             /\ answer'[d].sighting = SightingOf(answer'[d].command)
                             /\ answer'[d].observation.described = answer'[d].command.described
      BY DEF AnswersAreTrue, SameObservation, SameSighting, SightingOf, IdentityOf
    <2>7. CASE d = c
      BY <2>2, <2>3, <2>4, <2>5, <2>6, <2>7
    <2>8. CASE d # c
      <3>1. answer'[d] = answer[d]
        BY <2>6, <2>8
      <3>2. ASSUME NEW e \in Collectors \ {d}, answer'[e] # None
            PROVE  /\ answer'[d].newObservation /\ answer'[e].newObservation =>
                        answer'[d].observation # answer'[e].observation
                   /\ answer'[d].newSighting /\ answer'[e].newSighting =>
                        answer'[d].sighting # answer'[e].sighting
        <4>1. CASE e = c
          BY <2>5, <2>6, <2>8, <3>1, <4>1
        <4>2. CASE e # c
          BY <2>6, <3>1, <3>2, <4>2 DEF IInv, AnswersAreTrue
        <4> QED
          BY <4>1, <4>2
      <3> QED
        BY <1>2, <3>1, <3>2 DEF IInv, AnswersAreTrue
    <2> QED
      BY <2>7, <2>8
  <1> QED
    BY <1>7, <1>8, <1>9, <1>10, <1>11, <1>12 DEF IInv

-----------------------------------------------------------------------------
(* Sources.                                                                *)

LEMMA SourcePreserves ==
    ASSUME IInv, NEW s \in Sources, NEW row \in [active : BOOLEAN, test : BOOLEAN],
           sources' = [sources EXCEPT ![s] = row], UNCHANGED <<rows, ingesting, answer>>,
           \A c \in Collectors :
              Open(c) /\ ingesting[c].step # "lock" => ingesting[c].command.source # s
    PROVE  IInv'
  <1>1. UNCHANGED <<payloads, observations, sightings, ingesting, answer>>
    BY DEF rows
  <1>2. sources' \in [Sources -> [active : BOOLEAN, test : BOOLEAN] \cup {None}]
        /\ \A other \in Sources \ {s} : sources'[other] = sources[other]
    BY DEF IInv, EvidenceTypeOK
  <1>3. EvidenceTypeOK'
    BY <1>1, <1>2 DEF IInv, EvidenceTypeOK, Open
  <1>4. TransactionsSound'
    <2> SUFFICES ASSUME NEW c \in Collectors, Open(c)
                 PROVE  TxSound(ingesting[c])'
      BY <1>1 DEF TransactionsSound, Open
    <2>1. TxSound(ingesting[c]) /\ ingesting[c].command.source \in Sources
      BY Before, OpenTyped DEF IInv, Command
    <2>2. ingesting[c].step # "lock" => Active(ingesting[c].command.source)'
      BY <1>1, <1>2, <2>1 DEF TxSound, Active
    <2> QED
      BY <1>1, <2>1, <2>2 DEF TxSound
  <1>5. OneRowPerKey' /\ NothingInPart'
    BY <1>1 DEF IInv, OneRowPerKey, NothingInPart, SameObservation, SameSighting, IdentityOf
  <1>6. TransactionsApart' /\ AnswersAreTrue'
    BY <1>1 DEF IInv, TransactionsApart, AnswersAreTrue, Apart, Open
  <1> QED
    BY <1>3, <1>4, <1>5, <1>6 DEF IInv

LEMMA AdministrationPreserves ==
    ASSUME IInv, NEW s \in Sources, NEW active \in BOOLEAN,
           RegisterSource(s, active) \/ SetActive(s, active) \/ MarkSourceAsTest(s)
    PROVE  IInv'
  <1>1. PICK row \in [active : BOOLEAN, test : BOOLEAN] :
          sources' = [sources EXCEPT ![s] = row] /\ UNCHANGED <<rows, ingesting, answer>>
    BY DEF IInv, EvidenceTypeOK, RegisterSource, SetActive, MarkSourceAsTest, UpdateSource
  <1>2. ASSUME NEW c \in Collectors, Open(c), ingesting[c].step # "lock"
        PROVE  ingesting[c].command.source # s
    <2>1. sources[s] # None => ~ ShareLocked(s)
      BY DEF RegisterSource, SetActive, MarkSourceAsTest, UpdateSource
    <2>2. Active(ingesting[c].command.source)
      BY <1>2, Before DEF TxSound
    <2> QED
      BY <1>2, <2>1, <2>2 DEF ShareLocked, Active
  <1> QED
    BY <1>1, <1>2, SourcePreserves

-----------------------------------------------------------------------------
(* The invariant is inductive.                                             *)

LEMMA InitEstablishes == EvidenceInit => IInv
  <1> SUFFICES ASSUME EvidenceInit
               PROVE  IInv
    OBVIOUS
  <1>1. \A c \in Collectors : ~ Open(c)
    BY DEF EvidenceInit, Open
  <1>2. EvidenceTypeOK
    BY <1>1 DEF EvidenceInit, EvidenceTypeOK
  <1>3. OneRowPerKey /\ NothingInPart
    BY DEF EvidenceInit, OneRowPerKey, NothingInPart
  <1>4. TransactionsSound /\ TransactionsApart
    BY <1>1 DEF TransactionsSound, TransactionsApart
  <1>5. AnswersAreTrue
    BY DEF EvidenceInit, AnswersAreTrue
  <1> QED
    BY <1>2, <1>3, <1>4, <1>5 DEF IInv

LEMMA IngestPreserves ==
    ASSUME IInv, NEW c \in Collectors, Ingest(c)
    PROVE  IInv'
  BY LockPreserves, GonePreserves, PayloadPreserves, InsertObservationPreserves,
     FindObservationPreserves, InsertSightingPreserves, FindSightingPreserves, CommitPreserves
  DEF Ingest, SourceRefused

LEMMA StutterPreserves ==
    ASSUME IInv, UNCHANGED evidenceVars
    PROVE  IInv'
  <1>1. UNCHANGED <<sources, payloads, observations, sightings, ingesting, answer>>
    BY DEF evidenceVars, rows
  <1>2. EvidenceTypeOK'
    BY <1>1 DEF IInv, EvidenceTypeOK, Open
  <1>3. TransactionsSound'
    BY <1>1 DEF IInv, TransactionsSound, TxSound, Open, Active
  <1>4. OneRowPerKey' /\ NothingInPart'
    BY <1>1 DEF IInv, OneRowPerKey, NothingInPart, SameObservation, SameSighting, IdentityOf
  <1>5. TransactionsApart' /\ AnswersAreTrue'
    BY <1>1 DEF IInv, TransactionsApart, AnswersAreTrue, Apart, Open
  <1> QED
    BY <1>2, <1>3, <1>4, <1>5 DEF IInv

LEMMA NextPreserves == IInv /\ [EvidenceNext]_evidenceVars => IInv'
  <1> SUFFICES ASSUME IInv, [EvidenceNext]_evidenceVars
               PROVE  IInv'
    OBVIOUS
  <1>1. ASSUME NEW c \in Collectors, NEW command \in Commands, BeginIngestion(c, command)
        PROVE  IInv'
    BY <1>1, BeginPreserves
  <1>2. ASSUME NEW c \in Collectors, Ingest(c)
        PROVE  IInv'
    BY <1>2, IngestPreserves
  <1>3. ASSUME NEW c \in Collectors, CrashIngestion(c)
        PROVE  IInv'
    BY <1>3, GonePreserves DEF CrashIngestion
  <1>4. ASSUME NEW s \in Sources, NEW active \in BOOLEAN,
               RegisterSource(s, active) \/ SetActive(s, active) \/ MarkSourceAsTest(s)
        PROVE  IInv'
    BY <1>4, AdministrationPreserves
  <1>5. CASE UNCHANGED evidenceVars
    BY <1>5, StutterPreserves
  <1> QED
    BY <1>1, <1>2, <1>3, <1>4, <1>5 DEF EvidenceNext

LEMMA Inductive == EvidenceSpec => []IInv
  BY InitEstablishes, NextPreserves, PTL DEF EvidenceSpec

-----------------------------------------------------------------------------
(* The theorems.                                                           *)

(* Rows keep their types, and a transaction holds exactly what the         *)
(* statements before its step have found or inserted.                      *)
THEOREM EvidenceIsTyped == EvidenceSpec => []EvidenceTypeOK
  <1>1. IInv => EvidenceTypeOK
    BY DEF IInv
  <1> QED
    BY <1>1, Inductive, PTL

(* Evidence is never stored in part, and the checks of ingest_evidence     *)
(* and store_observation that are thought unreachable are: no collector    *)
(* meets an observation without its payload, nor a new observation whose   *)
(* first sighting is not its own.                                          *)
THEOREM EvidenceStaysWhole == EvidenceSpec => []EvidenceIsWhole
  <1>1. IInv => ChecksNeverFail
    <2> SUFFICES ASSUME IInv, NEW c \in Collectors, Open(c)
                 PROVE  /\ ingesting[c].step \notin {"lock", "payload"} =>
                             ingesting[c].newPayload \/ ingesting[c].command.content \in payloads
                        /\ At(c, "commit") /\ ingesting[c].newObservation =>
                             /\ ingesting[c].newSighting
                             /\ ingesting[c].sighting.time = ingesting[c].observation.time
      BY DEF ChecksNeverFail
    <2>1. TxSound(ingesting[c]) /\ TxTyped(ingesting[c])
      BY Before
    <2>2. ingesting[c].step \in {"lock", "payload", "observation", "sighting", "commit"}
      BY <2>1 DEF TxTyped, Ingestion
    <2> QED
      BY <2>1, <2>2 DEF TxSound, At, ObservationOf, SightingOf
  <1>2. IInv => NothingInPart
    BY DEF IInv
  <1> QED
    BY <1>1, <1>2, Inductive, PTL DEF EvidenceIsWhole

(* What a collector was told remains true: its rows are stored and are     *)
(* those of its command, nobody else was told to have created them, and    *)
(* "no difference" means that the stored fields are the ones it sent.      *)
THEOREM AnswersStayTrue == EvidenceSpec => []AnswersAreTrue
  <1>1. IInv => AnswersAreTrue
    BY DEF IInv
  <1> QED
    BY <1>1, Inductive, PTL

(* Hidden behind its tables, the store with its transactions, locks,       *)
(* concurrent collectors and crashes is the log of EvidenceLog: whole      *)
(* sightings appear in one step, and from a source active in that step.    *)
THEOREM ImplementsLog == EvidenceSpec => ImplementsEvidenceLog
  <1>1. EvidenceInit => Log!Init
    BY DEF EvidenceInit, Log!Init, Active
  <1>2. IInv /\ [EvidenceNext]_evidenceVars => [Log!Next]_(Log!log)
    <2> SUFFICES ASSUME IInv, [EvidenceNext]_evidenceVars
                 PROVE  Log!Next \/ UNCHANGED Log!log
      OBVIOUS
    <2>1. ASSUME UNCHANGED <<sources, rows>>
          PROVE  UNCHANGED Log!log
      BY <2>1 DEF Log!log, rows, Active
    <2>2. ASSUME NEW c \in Collectors, CommitIngestion(c)
          PROVE  Log!Next \/ UNCHANGED Log!log
      <3> PICK tx : tx = ingesting[c]
        OBVIOUS
      <3>1. /\ TxSound(tx) /\ tx.step = "commit" /\ tx.command \in Commands
            /\ tx.command \in Command
            /\ SameObservation(tx.observation, tx.command) /\ SameSighting(tx.sighting, tx.command)
        BY <2>2, Committed
      <3>2. /\ payloads' = payloads \cup {tx.command.content}
            /\ observations' = observations \cup {tx.observation}
            /\ sightings' = sightings \cup {tx.sighting}
            /\ ~ tx.newPayload => payloads' = payloads
            /\ ~ tx.newObservation => observations' = observations
            /\ ~ tx.newSighting => sightings' = sightings
            /\ UNCHANGED sources
        BY <2>2, Committed
      <3>3. tx.command.source \in {s \in Sources : Active(s)}
        BY <3>1 DEF TxSound, Command
      <3>4. {s \in Sources : Active(s)}' = {s \in Sources : Active(s)}
        BY <3>2 DEF Active
      <3>5. CASE tx.newObservation
        <4>1. ~ Log!Known(tx.command)
          BY <3>1, <3>5 DEF TxSound, Log!Known, SameObservation
        <4>2. /\ observations' = observations \cup {ObservationOf(tx.command)}
              /\ sightings' = sightings \cup {SightingOf(tx.command)}
          BY <3>1, <3>2, <3>5 DEF TxSound
        <4>3. Log!Observe(tx.command)
          BY <3>2, <3>3, <3>4, <4>1, <4>2 DEF Log!Observe
        <4> QED
          BY <3>1, <4>3 DEF Log!Next
      <3>6. CASE ~ tx.newObservation /\ tx.newSighting
        <4>1. Log!Known(tx.command)
          BY <3>1, <3>6 DEF TxSound, Log!Known, SameObservation
        <4>2. \A row \in sightings : ~ (IdentityOf(row) = IdentityOf(tx.command) /\ row.key = tx.command.key)
          BY <3>1, <3>6 DEF TxSound, SameSighting, SameObservation
        <4>3. UNCHANGED <<payloads, observations>> /\ sightings' = sightings \cup {SightingOf(tx.command)}
          BY <3>1, <3>2, <3>6 DEF TxSound
        <4>4. Log!SightAgain(tx.command)
          BY <3>3, <3>4, <4>1, <4>2, <4>3 DEF Log!SightAgain
        <4> QED
          BY <3>1, <4>4 DEF Log!Next
      <3>7. CASE ~ tx.newObservation /\ ~ tx.newSighting
        <4>1. UNCHANGED <<sources, payloads, observations, sightings>>
          BY <3>1, <3>2, <3>7 DEF TxSound
        <4> QED
          BY <2>1, <4>1 DEF rows
      <3> QED
        BY <3>5, <3>6, <3>7
    <2>3. ASSUME NEW s \in Sources, NEW active \in BOOLEAN,
                 RegisterSource(s, active) \/ SetActive(s, active) \/ MarkSourceAsTest(s)
          PROVE  Log!Next
      <3>1. UNCHANGED <<payloads, observations, sightings>>
        BY <2>3 DEF RegisterSource, SetActive, MarkSourceAsTest, UpdateSource, rows
      <3>2. \A other \in Sources \ {s} : sources'[other] = sources[other]
        BY <2>3 DEF RegisterSource, SetActive, MarkSourceAsTest, UpdateSource, IInv, EvidenceTypeOK
      <3>3. {other \in Sources : Active(other)}' \in
              {{other \in Sources : Active(other)} \cup {s}, {other \in Sources : Active(other)} \ {s}}
        BY <3>2 DEF Active
      <3>4. Log!Switch(s)
        BY <3>1, <3>3 DEF Log!Switch
      <3> QED
        BY <3>4 DEF Log!Next
    <2>4. ASSUME NEW c \in Collectors,
                 \/ \E command \in Commands : BeginIngestion(c, command)
                 \/ CrashIngestion(c)
                 \/ Ingest(c) /\ ~ CommitIngestion(c)
          PROVE  UNCHANGED <<sources, rows>>
      BY <2>4 DEF BeginIngestion, CrashIngestion, Ingest, LockSource, SourceRefused, StorePayload,
        InsertObservation, FindObservation, InsertSighting, FindSighting, Advance
    <2>5. CASE UNCHANGED evidenceVars
      BY <2>1, <2>5 DEF evidenceVars
    <2> QED
      BY <2>1, <2>2, <2>3, <2>4, <2>5 DEF EvidenceNext
  <1> QED
    BY <1>1, <1>2, Inductive, PTL DEF EvidenceSpec, ImplementsEvidenceLog, Log!Spec

-----------------------------------------------------------------------------
(* Ingestions that wait for one another.                                   *)

\* Ingestions whose next statement is not waiting.
Running(d) == Open(d) /\ ~ Blocked(d)

(* ingest_evidence inserts in one order, payload, observation, sighting,   *)
(* so a transaction only waits for one that is further on: waits form no   *)
(* cycle, and behind every wait there is a transaction that can go on.     *)
WaitsEnd ==
    \A c, d \in Collectors :
        Open(c) /\ WaitsFor(c, d) =>
            /\ ~ WaitsFor(d, c)
            /\ \E e \in Collectors : Running(e) /\ ~ At(e, "lock") /\ ~ At(e, "payload")

THEOREM EvidenceNeverDeadlocks == EvidenceSpec => []WaitsEnd
  <1>1. ASSUME IInv
        PROVE  WaitsEnd
    <2>1. \A c, d \in Collectors :
             WaitsFor(c, d) =>
               /\ Open(d)
               /\ At(c, "payload") => At(d, "observation") \/ At(d, "sighting") \/ At(d, "commit")
               /\ At(c, "observation") => At(d, "sighting") \/ At(d, "commit")
               /\ At(c, "sighting") => At(d, "commit")
      <3> SUFFICES ASSUME NEW c \in Collectors, NEW d \in Collectors, WaitsFor(c, d)
                   PROVE  /\ Open(d)
                          /\ At(c, "payload") => At(d, "observation") \/ At(d, "sighting") \/ At(d, "commit")
                          /\ At(c, "observation") => At(d, "sighting") \/ At(d, "commit")
                          /\ At(c, "sighting") => At(d, "commit")
        OBVIOUS
      <3>1. Open(d) /\ TxSound(ingesting[d])
        BY <1>1 DEF WaitsFor, IInv, TransactionsSound
      <3>2. ingesting[d].step \in {"lock", "payload", "observation", "sighting", "commit"}
        BY <1>1, <3>1, OpenTyped DEF IInv, TxTyped, Ingestion
      <3> QED
        BY <3>1, <3>2 DEF WaitsFor, TxSound, At
    <2>2. \A c, d \in Collectors :
             WaitsFor(c, d) => At(c, "payload") \/ At(c, "observation") \/ At(c, "sighting")
      BY DEF WaitsFor
    <2>3. \A c \in Collectors : At(c, "commit") => Running(c)
      BY <2>2 DEF Running, Blocked, At
    <2>4. \A c \in Collectors :
             At(c, "sighting") =>
               Running(c) \/ \E e \in Collectors : Running(e) /\ At(e, "commit")
      BY <2>1, <2>3 DEF Running, Blocked, At
    <2>5. \A c \in Collectors :
             At(c, "observation") =>
               Running(c) \/ \E e \in Collectors : Running(e) /\ (At(e, "sighting") \/ At(e, "commit"))
      BY <2>1, <2>3, <2>4 DEF Running, Blocked, At
    <2> SUFFICES ASSUME NEW c \in Collectors, NEW d \in Collectors, Open(c), WaitsFor(c, d)
                 PROVE  /\ ~ WaitsFor(d, c)
                        /\ \E e \in Collectors : Running(e) /\ ~ At(e, "lock") /\ ~ At(e, "payload")
      BY DEF WaitsEnd
    <2>6. At(d, "observation") \/ At(d, "sighting") \/ At(d, "commit")
      BY <2>1, <2>2
    <2>7. ~ WaitsFor(d, c)
      BY <2>1, <2>2 DEF At
    <2>8. \E e \in Collectors :
             Running(e) /\ (At(e, "observation") \/ At(e, "sighting") \/ At(e, "commit"))
      BY <2>3, <2>4, <2>5, <2>6
    <2> QED
      BY <2>7, <2>8 DEF At
  <1> QED
    BY <1>1, Inductive, PTL DEF EvidenceSpec
=============================================================================
