--------------------------- MODULE EventLogProofs ---------------------------
(***************************************************************************)
(* Proofs about EventLog for any set of events.  Types, and where what the *)
(* portal gets comes from, are for any number of loggers on a file; the    *)
(* rest is for a file that one logger owns (OneLogger).  With two loggers  *)
(* PayloadHasHeader is false: EventLogShared.                              *)
(*                                                                         *)
(* While the mutex is held nobody else touches the file, so what its       *)
(* holder read is still there: LocalsAgree.  What memory believes of the   *)
(* file is so (HeaderFlag), and where an event is tells whether the portal *)
(* can have seen it (DeliveredOnce).                                       *)
(***************************************************************************)
EXTENDS EventLog, TLAPS

OneLogger == \E i : Instances = {i}

\* metadataApplied without metadataErr: the file starts with the header.
HeaderFlag == \A i \in Instances : applied[i] /\ ~failed[i] => file.hdr

LocalsAgree ==
  \A i \in Instances :
    /\ phase[i] = "read" => applied[i] /\ ~failed[i]
    /\ phase[i] = "rewrite" => ~applied[i] /\ file = EmptyFile
    /\ phase[i] \in Sending => held[i] = file /\ file.hdr
    /\ phase[i] = "truncate" => held[i].events \subseteq delivered
    /\ phase[i] \in {"header", "rewrite", "append"} => op[i] \notin appended

\* Only events that were appended go anywhere.
Provenance ==
  /\ file.events \subseteq appended /\ delivered \subseteq appended
  /\ HeldIn("rewrite") \subseteq appended

\* An event the portal has is still in the file, or about to return to it, only
\* for a reason, or because the truncation is the next step.
DeliveredOnce ==
  /\ delivered \cap file.events \subseteq excused \cup HeldIn("truncate")
  /\ delivered \cap HeldIn("rewrite") \subseteq excused

Inv ==
  /\ TypeOK
  /\ HeaderFlag
  /\ LocalsAgree
  /\ Provenance
  /\ NoEventLost
  /\ DeliveredOnce
  /\ DuplicatesAreExcused

-----------------------------------------------------------------------------

\* With one logger, what is held in a phase is what its mutex holder holds.
LEMMA HeldByOne ==
  ASSUME NEW i, Instances = {i}, NEW p
  PROVE  HeldIn(p) = IF phase[i] = p THEN held[i].events ELSE {}
<1>1. CASE phase[i] = p
  BY <1>1 DEF HeldIn
<1>2. CASE phase[i] # p
  BY <1>2 DEF HeldIn
<1> QED
  BY <1>1, <1>2

\* The same of the next state.
LEMMA HeldByOneNext ==
  ASSUME NEW i, Instances = {i}, NEW p
  PROVE  HeldIn(p)' = IF phase'[i] = p THEN held'[i].events ELSE {}
<1>1. CASE phase'[i] = p
  BY <1>1 DEF HeldIn
<1>2. CASE phase'[i] # p
  BY <1>2 DEF HeldIn
<1> QED
  BY <1>1, <1>2

\* Nothing is written, held or delivered when a logger is new.
LEMMA InitInv == Init => Inv
<1> SUFFICES ASSUME Init PROVE Inv
  OBVIOUS
<1> USE DEF Init, EmptyFile, Files, Junk
<1>1. TypeOK
  BY DEF TypeOK, Phases, Sending
<1>2. HeaderFlag /\ LocalsAgree
  BY DEF HeaderFlag, LocalsAgree, Sending
<1>3. \A p \in {"rewrite", "truncate"} : HeldIn(p) = {}
  BY DEF HeldIn
<1>4. Provenance /\ NoEventLost /\ DeliveredOnce /\ DuplicatesAreExcused
  BY <1>3 DEF Provenance, NoEventLost, DeliveredOnce, DuplicatesAreExcused
<1> QED
  BY <1>1, <1>2, <1>4 DEF Inv

-----------------------------------------------------------------------------
(* What a write leaves in the file, whole or cut short.                    *)

\* A torn line, a glued event and the beginning of a rewrite make a file, and the last
\* has no event that the content to be written had not.
LEMMA TornFiles ==
  ASSUME NEW f \in Files
  PROVE  /\ Torn(f) \in Files
         /\ \A e \in Events : WithEvent(f, e) \in Files
         /\ Beginnings(f) \subseteq Files
         /\ \A g \in Beginnings(f) : g.events \subseteq f.events
<1> USE DEF Files, Junk
<1>1. Torn(f) \in Files /\ EmptyFile \in Files /\ Torn(EmptyFile) \in Files
  BY DEF Torn, EmptyFile
<1>2. ASSUME NEW e \in Events PROVE WithEvent(f, e) \in Files
  BY <1>2 DEF WithEvent
<1>3. EmptyFile.events = {} /\ Torn(EmptyFile).events = {}
  BY DEF Torn, EmptyFile
<1>4. ASSUME NEW g \in Beginnings(f) PROVE g \in Files /\ g.events \subseteq f.events
  <2>1. CASE g \in {EmptyFile, Torn(EmptyFile)}
    BY <1>1, <1>3, <2>1
  <2>2. CASE g \in [hdr : {TRUE}, events : SUBSET f.events, junk : {"none", "open", f.junk}]
    BY <2>2
  <2> QED
    BY <2>1, <2>2 DEF Beginnings
<1> QED
  BY <1>1, <1>2, <1>4

\* An event that is written is in the file, or glued to a torn line; the others and the
\* header stay.
LEMMA EventWritten ==
  ASSUME NEW f \in Files, NEW e \in Events
  PROVE  /\ WithEvent(f, e).hdr = f.hdr
         /\ \/ WithEvent(f, e).events = f.events \cup {e}
            \/ WithEvent(f, e).events = f.events
         /\ Torn(f).hdr = f.hdr /\ Torn(f).events = f.events
  BY DEF WithEvent, Torn, Files

\* With one logger a crash leaves the file, but for a torn line, or the beginning of what
\* a rewrite held.
LEMMA AfterCrash ==
  ASSUME NEW i, Instances = {i}, TypeOK, Crash
  PROVE  /\ file' \in Files
         /\ phase[i] # "rewrite" => file'.events = file.events
         /\ phase[i] = "rewrite" /\ file = EmptyFile => file'.events \subseteq held[i].events
<1>1. file \in Files /\ held[i] \in Files
  BY DEF TypeOK
<1>2. \/ file' = file \/ file' = Torn(file)
      \/ phase[i] = "rewrite" /\ file' \in Beginnings(held[i])
  BY DEF Crash, CrashFiles
<1>3. Torn(file).events = file.events
  BY <1>1 DEF Torn, Files
<1> QED
  BY <1>1, <1>2, <1>3, TornFiles DEF EmptyFile

\* With any number of loggers a crash leaves a file, whole or torn.
LEMMA CrashLeavesFile ==
  ASSUME file \in Files, held \in [Instances -> Files]
  PROVE  CrashFiles \subseteq Files
<1> SUFFICES ASSUME NEW f \in CrashFiles PROVE f \in Files
  OBVIOUS
<1>1. \/ f \in {file, Torn(file)}
      \/ \E i \in Instances : f \in Beginnings(held[i])
  BY DEF CrashFiles
<1>2. CASE f \in {file, Torn(file)}
  BY <1>2, TornFiles
<1>3. ASSUME NEW i \in Instances, f \in Beginnings(held[i]) PROVE f \in Files
  <2>1. held[i] \in Files
    OBVIOUS
  <2> QED
    BY <1>3, <2>1, TornFiles
<1> QED
  BY <1>1, <1>2, <1>3

-----------------------------------------------------------------------------
\* Every step keeps the types, whoever else has the file; Append logs an event that was
\* issued.
LEMMA TypeStep == TypeOK /\ [Next]_vars => TypeOK'
<1> SUFFICES ASSUME TypeOK, [Next]_vars PROVE TypeOK'
  OBVIOUS
<1> USE DEF TypeOK, Phases, Sending, Files, Junk, EmptyFile, Goto
<1>0. ASSUME NEW i \in Instances
      PROVE  \A ok \in BOOLEAN :
               /\ AfterHeader(i, ok) \in {"append", "read", "idle"}
               /\ AfterHeader(i, ok) = "append" => op[i] \in Events
               /\ AfterHeader(i, ok) = "read" => op[i] = Ship
  BY DEF AfterHeader
<1>1. ASSUME NEW i \in Instances, NEW e \in Events, StartLog(i, e) PROVE TypeOK'
  BY <1>1 DEF StartLog, history
<1>2. ASSUME NEW i \in Instances, StartShip(i) PROVE TypeOK'
  BY <1>2 DEF StartShip, history
<1>3. ASSUME NEW i \in Instances, Proceed(i) PROVE TypeOK'
  <2>1. CASE HeaderKnown(i)
    BY <1>0, <2>1 DEF HeaderKnown, history
  <2>2. CASE HeaderFails(i)
    BY <1>0, <2>2 DEF HeaderFails, history
  <2>3. CASE HeaderPresent(i)
    BY <1>0, <2>3 DEF HeaderPresent, history
  <2>4. CASE StartRewrite(i)
    BY <2>4 DEF StartRewrite, history
  <2>5. CASE Rewrite(i)
    BY <1>0, <2>5 DEF Rewrite, history
  <2>6. CASE RewriteFails(i)
    <3>1. file' \in Files
      BY <2>6, TornFiles DEF RewriteFails
    <3> QED
      BY <1>0, <2>6, <3>1 DEF RewriteFails
  <2>7. CASE Append(i)
    <3>1. op[i] \in issued
      BY <2>7, ShipAssumption DEF Append
    <3>2. file' \in Files
      BY <2>7, TornFiles DEF Append
    <3> QED
      BY <2>7, <3>1, <3>2 DEF Append
  <2>8. CASE AppendFails(i)
    <3>1. file' \in Files
      BY <2>8, TornFiles DEF AppendFails
    <3> QED
      BY <2>8, <3>1 DEF AppendFails, history
  <2>9. CASE ReadPayload(i)
    BY <2>9 DEF ReadPayload, Shippable, TwoLines, history
  <2>10. CASE NothingToShip(i)
    BY <2>10 DEF NothingToShip, history
  <2>11. CASE Accepted(i)
    BY <2>11 DEF Accepted, Deliver
  <2>12. CASE AnswerLost(i)
    BY <2>12 DEF AnswerLost, Deliver
  <2>13. CASE Refused(i)
    BY <2>13 DEF Refused, AfterRefusal, history
  <2>14. CASE Truncate(i)
    BY <2>14 DEF Truncate, Empty, FileAfterShip, AppliedAfterShip, history
  <2>15. CASE TruncateFails(i)
    BY <2>15 DEF TruncateFails
  <2>16. CASE RefusalMisread(i)
    BY <2>16 DEF RefusalMisread, history
  <2>17. CASE TruncateMisread(i)
    BY <2>17 DEF TruncateMisread, Empty, FileAfterShip, AppliedAfterShip
  <2> QED
    BY <1>3, <2>1, <2>2, <2>3, <2>4, <2>5, <2>6, <2>7, <2>8, <2>9, <2>10, <2>11,
       <2>12, <2>13, <2>14, <2>15, <2>16, <2>17 DEF Proceed, Header
<1>4. ASSUME NEW e \in Events, DropEvent(e) PROVE TypeOK'
  BY <1>4 DEF DropEvent, memory, history
<1>5. CASE Crash
  <2>1. HeldIn("rewrite") \subseteq Events /\ HeldIn("truncate") \subseteq Events
    BY DEF HeldIn
  <2>2. file' \in Files
    BY <1>5, CrashLeavesFile DEF Crash
  <2> QED
    BY <1>5, <2>1, <2>2 DEF Crash
<1>6. CASE Settle
  BY <1>6 DEF Settle, memory, history
<1>7. CASE UNCHANGED vars
  BY <1>7 DEF vars
<1> QED
  BY <1>1, <1>2, <1>3, <1>4, <1>5, <1>6, <1>7 DEF Next

-----------------------------------------------------------------------------
(* The rest of Inv, one lemma per group of actions.                        *)

Rest == HeaderFlag /\ LocalsAgree /\ Provenance /\ NoEventLost /\ DeliveredOnce
          /\ DuplicatesAreExcused

\* Taking the mutex, dropping an event and the end of trouble leave the file and what
\* the portal has alone.
LEMMA StartStep ==
  ASSUME NEW i, Instances = {i}, Inv,
         (\E e \in Events : StartLog(i, e) \/ DropEvent(e)) \/ StartShip(i) \/ Settle
           \/ UNCHANGED vars
  PROVE  Rest'
<1> USE DEF Inv, TypeOK, Files, Sending
<1> USE HeldByOne, HeldByOneNext
<1>1. UNCHANGED <<file, appended, delivered, twice, excused, cut, misread, applied, failed, held>>
  BY DEF StartLog, DropEvent, StartShip, Settle, vars, memory, history
<1>2. \/ UNCHANGED <<phase, op>>
      \/ phase[i] = "idle" /\ phase'[i] = "header" /\ op'[i] \notin appended
  <2>1. ASSUME NEW e \in Events, StartLog(i, e) PROVE phase[i] = "idle"
          /\ phase'[i] = "header" /\ op'[i] \notin appended
    BY <2>1 DEF StartLog, Goto
  <2>2. CASE StartShip(i)
    BY <2>2, ShipAssumption DEF StartShip, Goto
  <2> QED
    BY <2>1, <2>2 DEF DropEvent, Settle, vars, memory
<1>3. HeldIn("rewrite")' = HeldIn("rewrite") /\ HeldIn("truncate")' = HeldIn("truncate")
  <2>1. ASSUME NEW p \in {"rewrite", "truncate"} PROVE HeldIn(p)' = HeldIn(p)
    <3>1. phase'[i] = p <=> phase[i] = p
      BY <1>2
    <3>2. HeldIn(p) = IF phase[i] = p THEN held[i].events ELSE {}
      BY HeldByOne
    <3>3. HeldIn(p)' = IF phase'[i] = p THEN held'[i].events ELSE {}
      BY HeldByOneNext
    <3> QED
      BY <1>1, <3>1, <3>2, <3>3
  <2> QED
    BY <2>1
<1>4. HeaderFlag'
  BY <1>1 DEF HeaderFlag
<1>5. LocalsAgree'
  BY <1>1, <1>2 DEF LocalsAgree
<1>6. Provenance' /\ NoEventLost' /\ DeliveredOnce' /\ DuplicatesAreExcused'
  BY <1>1, <1>3 DEF Provenance, NoEventLost, DeliveredOnce, DuplicatesAreExcused
<1> QED
  BY <1>4, <1>5, <1>6 DEF Rest

\* ensureMetadataHeaderLocked moves the events of the file into memory and back.
LEMMA HeaderStep ==
  ASSUME NEW i, Instances = {i}, Inv, Header(i)
  PROVE  Rest'
<1> USE DEF Inv, TypeOK, Files, Goto, Sending
<1> USE HeldByOne, HeldByOneNext
<1>0. \A ok \in BOOLEAN : AfterHeader(i, ok) \in {"append", "read", "idle"}
        /\ (AfterHeader(i, ok) = "read" => ok)
  BY DEF AfterHeader
<1>1. CASE HeaderKnown(i) \/ HeaderFails(i) \/ HeaderPresent(i)
  <2>1. /\ UNCHANGED <<file, appended, delivered, twice, excused, cut, misread, held, op>>
        /\ phase[i] = "header" /\ phase'[i] \in {"append", "read", "idle"}
    BY <1>0, <1>1 DEF HeaderKnown, HeaderFails, HeaderPresent, history
  <2>2. HeldIn("rewrite") = {} /\ HeldIn("rewrite")' = {}
          /\ HeldIn("truncate") = {} /\ HeldIn("truncate")' = {}
    BY <2>1
  <2>3. applied'[i] /\ ~failed'[i] => file.hdr
    BY <1>1 DEF HeaderKnown, HeaderFails, HeaderPresent, HeaderFlag
  <2>4. phase'[i] = "read" => applied'[i] /\ ~failed'[i]
    BY <1>0, <1>1 DEF HeaderKnown, HeaderFails, HeaderPresent
  <2>5. HeaderFlag'
    BY <2>1, <2>3 DEF HeaderFlag
  <2>6. LocalsAgree'
    BY <2>1, <2>4 DEF LocalsAgree
  <2>7. Provenance' /\ NoEventLost' /\ DeliveredOnce' /\ DuplicatesAreExcused'
    BY <2>1, <2>2 DEF Provenance, NoEventLost, DeliveredOnce, DuplicatesAreExcused
  <2> QED
    BY <2>5, <2>6, <2>7 DEF Rest
<1>2. CASE StartRewrite(i)
  <2>1. /\ UNCHANGED <<appended, delivered, twice, excused, cut, misread, op, applied, failed>>
        /\ phase[i] = "header" /\ phase'[i] = "rewrite" /\ ~applied[i]
        /\ held'[i] = file /\ file' = EmptyFile
    BY <1>2 DEF StartRewrite, history
  <2>2. HeldIn("rewrite") = {} /\ HeldIn("rewrite")' = file.events
          /\ HeldIn("truncate") = {} /\ HeldIn("truncate")' = {}
    BY <2>1
  <2>3. HeaderFlag' /\ LocalsAgree'
    BY <2>1 DEF HeaderFlag, LocalsAgree
  <2>4. Provenance' /\ NoEventLost' /\ DeliveredOnce' /\ DuplicatesAreExcused'
    BY <2>1, <2>2 DEF Provenance, NoEventLost, DeliveredOnce, DuplicatesAreExcused,
       EmptyFile
  <2> QED
    BY <2>3, <2>4 DEF Rest
<1>3. CASE Rewrite(i)
  <2>1. /\ UNCHANGED <<appended, delivered, twice, excused, cut, misread, op>>
        /\ phase[i] = "rewrite" /\ phase'[i] \in {"append", "read", "idle"}
        /\ applied'[i] /\ ~failed'[i]
        /\ file'.hdr /\ file'.events = held[i].events /\ file.events = {}
    <3>1. phase'[i] = AfterHeader(i, TRUE)
      BY <1>3 DEF Rewrite
    <3>2. phase[i] = "rewrite" /\ file = EmptyFile
      BY <1>3 DEF Rewrite, LocalsAgree
    <3>3. /\ UNCHANGED <<appended, delivered, twice, excused, cut, misread, op>>
          /\ applied'[i] /\ ~failed'[i]
          /\ file'.hdr /\ file'.events = held[i].events
      BY <1>3 DEF Rewrite, history
    <3> QED
      BY <1>0, <3>1, <3>2, <3>3 DEF EmptyFile
  <2>2. HeldIn("rewrite") = held[i].events /\ HeldIn("rewrite")' = {}
          /\ HeldIn("truncate") = {} /\ HeldIn("truncate")' = {}
    BY <2>1
  <2>3. HeaderFlag' /\ LocalsAgree'
    BY <2>1 DEF HeaderFlag, LocalsAgree
  <2>4. Provenance' /\ NoEventLost' /\ DeliveredOnce' /\ DuplicatesAreExcused'
    BY <2>1, <2>2 DEF Provenance, NoEventLost, DeliveredOnce, DuplicatesAreExcused
  <2> QED
    BY <2>3, <2>4 DEF Rest
<1>4. CASE RewriteFails(i)
  <2>1. /\ UNCHANGED <<appended, delivered, twice, excused, misread, op>>
        /\ phase[i] = "rewrite" /\ phase'[i] \in {"append", "idle"}
        /\ failed'[i] /\ cut' = cut \cup (held[i].events \ file'.events)
        /\ file'.events \subseteq held[i].events /\ file.events = {}
    <3>1. phase'[i] = AfterHeader(i, FALSE)
      BY <1>4 DEF RewriteFails
    <3>2. AfterHeader(i, FALSE) \in {"append", "idle"}
      BY DEF AfterHeader
    <3>3. file'.events \subseteq held[i].events /\ file.events = {}
      BY <1>4, TornFiles DEF RewriteFails, LocalsAgree, EmptyFile
    <3> QED
      BY <1>4, <3>1, <3>2, <3>3 DEF RewriteFails
  <2>2. HeldIn("rewrite") = held[i].events /\ HeldIn("rewrite")' = {}
          /\ HeldIn("truncate") = {} /\ HeldIn("truncate")' = {}
    BY <2>1
  <2>3. HeaderFlag' /\ LocalsAgree'
    BY <2>1 DEF HeaderFlag, LocalsAgree
  <2>4. Provenance' /\ NoEventLost' /\ DeliveredOnce' /\ DuplicatesAreExcused'
    BY <2>1, <2>2 DEF Provenance, NoEventLost, DeliveredOnce, DuplicatesAreExcused
  <2> QED
    BY <2>3, <2>4 DEF Rest
<1> QED
  BY <1>1, <1>2, <1>3, <1>4 DEF Header

\* The file changes at Append and Truncate, what the portal has at a POST.
LEMMA FileStep ==
  ASSUME NEW i, Instances = {i}, Inv, Proceed(i), ~Header(i)
  PROVE  Rest'
<1> USE DEF Inv, TypeOK, Files, Goto, Sending
<1> USE HeldByOne, HeldByOneNext
<1>1. CASE Append(i)
  <2>1. /\ UNCHANGED <<delivered, twice, excused, misread, op, applied, failed, held>>
        /\ phase[i] = "append" /\ phase'[i] = "idle" /\ file'.hdr = file.hdr
        /\ file'.events = file.events \cup {op[i]} \/ file'.events = file.events
        /\ cut' = cut \cup ({op[i]} \ file'.events)
        /\ appended' = appended \cup {op[i]} /\ op[i] \notin appended
    BY <1>1, EventWritten DEF Append, LocalsAgree
  <2>2. HeldIn("rewrite") = {} /\ HeldIn("rewrite")' = {}
          /\ HeldIn("truncate") = {} /\ HeldIn("truncate")' = {}
    BY <2>1
  <2>3. HeaderFlag' /\ LocalsAgree'
    BY <2>1 DEF HeaderFlag, LocalsAgree
  <2>4. Provenance' /\ NoEventLost' /\ DeliveredOnce' /\ DuplicatesAreExcused'
    BY <2>1, <2>2 DEF Provenance, NoEventLost, DeliveredOnce, DuplicatesAreExcused
  <2> QED
    BY <2>3, <2>4 DEF Rest
<1>2. CASE ReadPayload(i)
  <2>1. /\ UNCHANGED <<appended, delivered, twice, excused, cut, misread, op, applied, failed, file>>
        /\ phase[i] = "read" /\ phase'[i] = "post" /\ held'[i] = file /\ file.hdr
    BY <1>2 DEF ReadPayload, history, LocalsAgree, HeaderFlag
  <2>2. HeldIn("rewrite") = {} /\ HeldIn("rewrite")' = {}
          /\ HeldIn("truncate") = {} /\ HeldIn("truncate")' = {}
    BY <2>1
  <2>3. HeaderFlag' /\ LocalsAgree'
    BY <2>1 DEF HeaderFlag, LocalsAgree
  <2>4. Provenance' /\ NoEventLost' /\ DeliveredOnce' /\ DuplicatesAreExcused'
    BY <2>1, <2>2 DEF Provenance, NoEventLost, DeliveredOnce, DuplicatesAreExcused
  <2> QED
    BY <2>3, <2>4 DEF Rest
<1>3. CASE AppendFails(i) \/ NothingToShip(i) \/ Refused(i)
  <2>1. /\ UNCHANGED <<appended, delivered, twice, excused, cut, misread, op, applied,
                       failed, held>>
        /\ phase[i] \in {"append", "read", "post"} /\ phase'[i] = "idle"
        /\ file'.hdr = file.hdr /\ file'.events = file.events
    BY <1>3 DEF AppendFails, Torn, NothingToShip, Refused, AfterRefusal, history
  <2>2. HeldIn("rewrite") = {} /\ HeldIn("rewrite")' = {}
          /\ HeldIn("truncate") = {} /\ HeldIn("truncate")' = {}
    BY <2>1
  <2>3. HeaderFlag' /\ LocalsAgree'
    BY <2>1 DEF HeaderFlag, LocalsAgree
  <2>4. Provenance' /\ NoEventLost' /\ DeliveredOnce' /\ DuplicatesAreExcused'
    BY <2>1, <2>2 DEF Provenance, NoEventLost, DeliveredOnce, DuplicatesAreExcused
  <2> QED
    BY <2>3, <2>4 DEF Rest
<1>4. CASE Accepted(i)
  <2>1. /\ UNCHANGED <<appended, excused, cut, misread, op, applied, failed, file, held>>
        /\ phase[i] = "post" /\ phase'[i] = "truncate"
        /\ held[i] = file /\ file.hdr
        /\ delivered' = delivered \cup file.events
        /\ twice' = twice \cup (delivered \cap file.events)
    BY <1>4 DEF Accepted, Deliver, LocalsAgree
  <2>2. HeldIn("rewrite") = {} /\ HeldIn("rewrite")' = {}
          /\ HeldIn("truncate") = {} /\ HeldIn("truncate")' = file.events
    BY <2>1
  <2>3. HeaderFlag' /\ LocalsAgree'
    BY <2>1 DEF HeaderFlag, LocalsAgree
  <2>4. Provenance' /\ NoEventLost' /\ DeliveredOnce' /\ DuplicatesAreExcused'
    BY <2>1, <2>2 DEF Provenance, NoEventLost, DeliveredOnce, DuplicatesAreExcused
  <2> QED
    BY <2>3, <2>4 DEF Rest
<1>5. CASE AnswerLost(i)
  <2>1. /\ UNCHANGED <<appended, cut, misread, op, applied, failed, file, held>>
        /\ phase[i] = "post" /\ phase'[i] = "idle"
        /\ held[i] = file
        /\ delivered' = delivered \cup file.events
        /\ twice' = twice \cup (delivered \cap file.events)
        /\ excused' = excused \cup file.events
    BY <1>5 DEF AnswerLost, Deliver, LocalsAgree
  <2>2. HeldIn("rewrite") = {} /\ HeldIn("rewrite")' = {}
          /\ HeldIn("truncate") = {} /\ HeldIn("truncate")' = {}
    BY <2>1
  <2>3. HeaderFlag' /\ LocalsAgree'
    BY <2>1 DEF HeaderFlag, LocalsAgree
  <2>4. Provenance' /\ NoEventLost' /\ DeliveredOnce' /\ DuplicatesAreExcused'
    BY <2>1, <2>2 DEF Provenance, NoEventLost, DeliveredOnce, DuplicatesAreExcused
  <2> QED
    BY <2>3, <2>4 DEF Rest
<1>6. CASE Truncate(i)
  <2>1. /\ UNCHANGED <<appended, delivered, twice, excused, cut, misread, op, held>>
        /\ phase[i] = "truncate" /\ phase'[i] = "idle"
        /\ held[i] = file /\ held[i].events \subseteq delivered
        /\ file' = EmptyFile /\ ~applied'[i]
    BY <1>6 DEF Truncate, Empty, FileAfterShip, AppliedAfterShip, history, LocalsAgree
  <2>2. HeldIn("rewrite") = {} /\ HeldIn("rewrite")' = {}
          /\ HeldIn("truncate") = file.events /\ HeldIn("truncate")' = {}
    BY <2>1
  <2>3. HeaderFlag' /\ LocalsAgree'
    BY <2>1 DEF HeaderFlag, LocalsAgree
  <2>4. Provenance' /\ NoEventLost' /\ DeliveredOnce' /\ DuplicatesAreExcused'
    BY <2>1, <2>2 DEF Provenance, NoEventLost, DeliveredOnce, DuplicatesAreExcused,
       EmptyFile
  <2> QED
    BY <2>3, <2>4 DEF Rest
<1>7. CASE TruncateFails(i)
  <2>1. /\ UNCHANGED <<appended, delivered, twice, cut, misread, op, applied, failed, file,
                       held>>
        /\ phase[i] \in {"truncate", "misread"} /\ phase'[i] = "idle"
        /\ held[i] = file /\ excused' = excused \cup (file.events \cap delivered)
    BY <1>7 DEF TruncateFails, LocalsAgree
  <2>2. HeldIn("rewrite") = {} /\ HeldIn("rewrite")' = {} /\ HeldIn("truncate")' = {}
    BY <2>1
  <2>3. HeaderFlag' /\ LocalsAgree'
    BY <2>1 DEF HeaderFlag, LocalsAgree
  <2>4. Provenance' /\ NoEventLost' /\ DeliveredOnce' /\ DuplicatesAreExcused'
    BY <2>1, <2>2 DEF Provenance, NoEventLost, DeliveredOnce, DuplicatesAreExcused
  <2> QED
    BY <2>3, <2>4 DEF Rest
<1>8. CASE RefusalMisread(i)
  <2>1. /\ UNCHANGED <<appended, delivered, twice, excused, cut, misread, op, applied,
                       failed, file, held>>
        /\ phase[i] = "post" /\ phase'[i] = "misread"
    BY <1>8 DEF RefusalMisread, history
  <2>2. HeldIn("rewrite") = {} /\ HeldIn("rewrite")' = {}
          /\ HeldIn("truncate") = {} /\ HeldIn("truncate")' = {}
    BY <2>1
  <2>3. HeaderFlag' /\ LocalsAgree'
    BY <2>1 DEF HeaderFlag, LocalsAgree
  <2>4. Provenance' /\ NoEventLost' /\ DeliveredOnce' /\ DuplicatesAreExcused'
    BY <2>1, <2>2 DEF Provenance, NoEventLost, DeliveredOnce, DuplicatesAreExcused
  <2> QED
    BY <2>3, <2>4 DEF Rest
<1>9. CASE TruncateMisread(i)
  <2>1. /\ UNCHANGED <<appended, delivered, twice, excused, cut, op, held>>
        /\ phase[i] = "misread" /\ phase'[i] = "idle"
        /\ misread' = misread \cup file.events /\ file' = EmptyFile /\ ~applied'[i]
    BY <1>9 DEF TruncateMisread, Empty, FileAfterShip, AppliedAfterShip, LocalsAgree
  <2>2. HeldIn("rewrite") = {} /\ HeldIn("rewrite")' = {}
          /\ HeldIn("truncate") = {} /\ HeldIn("truncate")' = {}
    BY <2>1
  <2>3. HeaderFlag' /\ LocalsAgree'
    BY <2>1 DEF HeaderFlag, LocalsAgree
  <2>4. Provenance' /\ NoEventLost' /\ DeliveredOnce' /\ DuplicatesAreExcused'
    BY <2>1, <2>2 DEF Provenance, NoEventLost, DeliveredOnce, DuplicatesAreExcused,
       EmptyFile
  <2> QED
    BY <2>3, <2>4 DEF Rest
<1> QED
  BY <1>1, <1>2, <1>3, <1>4, <1>5, <1>6, <1>7, <1>8, <1>9 DEF Proceed

\* A crash forgets what is held: in the middle of a rewrite the events are cut, before
\* the truncation they will be sent again.
LEMMA CrashStep ==
  ASSUME NEW i, Instances = {i}, Inv, Crash
  PROVE  Rest'
<1> USE DEF Inv, TypeOK, Files, Sending
<1>1. /\ UNCHANGED <<appended, delivered, twice, misread>>
      /\ cut' = cut \cup (HeldIn("rewrite") \ file'.events)
      /\ excused' = excused \cup HeldIn("truncate")
      /\ phase' = [j \in Instances |-> "idle"] /\ applied' = [j \in Instances |-> FALSE]
  BY DEF Crash
<1>2. HeldIn("rewrite")' = {} /\ HeldIn("truncate")' = {}
  BY <1>1, HeldByOneNext
<1>3. \/ HeldIn("rewrite") = {} /\ file'.events = file.events
      \/ HeldIn("truncate") = {} /\ file.events = {} /\ file'.events \subseteq HeldIn("rewrite")
  <2>1. CASE phase[i] = "rewrite"
    BY <2>1, AfterCrash, HeldByOne DEF LocalsAgree, EmptyFile
  <2>2. CASE phase[i] # "rewrite"
    BY <2>2, AfterCrash, HeldByOne
  <2> QED
    BY <2>1, <2>2
<1>4. HeaderFlag' /\ LocalsAgree'
  BY <1>1 DEF HeaderFlag, LocalsAgree
<1>5. Provenance' /\ NoEventLost' /\ DeliveredOnce' /\ DuplicatesAreExcused'
  BY <1>1, <1>2, <1>3 DEF Provenance, NoEventLost, DeliveredOnce, DuplicatesAreExcused
<1> QED
  BY <1>4, <1>5 DEF Rest

-----------------------------------------------------------------------------

\* Inv holds of every state that a logger with a file of its own reaches.
THEOREM Invariance == ASSUME OneLogger PROVE Spec => []Inv
<1> PICK i : Instances = {i}
  BY DEF OneLogger
<1>1. Init => Inv
  BY InitInv
<1>2. Inv /\ [Next]_vars => Inv'
  <2> SUFFICES ASSUME Inv, [Next]_vars PROVE Inv'
    OBVIOUS
  <2>1. TypeOK'
    BY TypeStep DEF Inv
  <2>2. Rest'
    BY StartStep, HeaderStep, FileStep, CrashStep DEF Next
  <2> QED
    BY <2>1, <2>2 DEF Inv, Rest
<1> QED
  BY <1>1, <1>2, PTL DEF Spec

\* Type correctness, and what the locals of Log and shipAndTruncateOnce hold, for any
\* number of loggers on the file.
THEOREM TypeCorrect == Spec => []TypeOK
<1>1. Init => TypeOK
  BY InitInv DEF Inv
<1> QED
  BY <1>1, TypeStep, PTL DEF Spec

\* No shipment that failed, stayed unanswered or was refused, and no crash, loses an event
\* from the file: only a write cut short does, and a refusal taken for success.
THEOREM EventsSurvive == ASSUME OneLogger PROVE Spec => []NoEventLost
<1>1. Inv => NoEventLost
  BY DEF Inv
<1> QED
  BY <1>1, Invariance, PTL

\* Every payload that shipAndTruncateOnce posts starts with the metadata line.
THEOREM PayloadsHaveHeader == ASSUME OneLogger PROVE Spec => []PayloadHasHeader
<1>1. Inv => PayloadHasHeader
  BY DEF Inv, LocalsAgree, Sending, PayloadHasHeader
<1> QED
  BY <1>1, Invariance, PTL

\* The portal gets an event again only after an answer or a truncation went missing.
THEOREM DuplicatesHaveCause == ASSUME OneLogger PROVE Spec => []DuplicatesAreExcused
<1>1. Inv => DuplicatesAreExcused
  BY DEF Inv
<1> QED
  BY <1>1, Invariance, PTL

-----------------------------------------------------------------------------
(* What is left when several loggers share the file: they can lose events  *)
(* and the header for each other, and still invent nothing.                *)

\* The file, the portal and what a logger is about to write, send or forget have only
\* events that were appended.
NothingInvented ==
  /\ file.events \subseteq appended /\ delivered \subseteq appended
  /\ \A i \in Instances :
       phase[i] \in {"rewrite"} \cup Sending => held[i].events \subseteq appended

\* Whatever the others do to the file in between, a logger writes and sends what it read.
LEMMA InventedStep ==
  TypeOK /\ NothingInvented /\ [Next]_vars => NothingInvented'
<1> SUFFICES ASSUME TypeOK, NothingInvented, [Next]_vars PROVE NothingInvented'
  OBVIOUS
<1> USE DEF NothingInvented, Goto, Files, Sending
<1>1. ASSUME NEW i \in Instances, Proceed(i) PROVE NothingInvented'
  <2>0. \A j \in Instances \ {i} : phase'[j] = phase[j] /\ held'[j] = held[j]
    BY <1>1 DEF TypeOK, Proceed, Header, HeaderKnown, HeaderFails, HeaderPresent,
       StartRewrite, Rewrite, RewriteFails, Append, AppendFails, ReadPayload,
       NothingToShip, Accepted, AnswerLost, Refused, RefusalMisread, Truncate,
       TruncateMisread, TruncateFails, Empty
  <2>1. appended \subseteq appended'
    BY <1>1 DEF Proceed, Header, HeaderKnown, HeaderFails, HeaderPresent,
       StartRewrite, Rewrite, RewriteFails, Append, AppendFails, ReadPayload,
       NothingToShip, Accepted, AnswerLost, Refused, RefusalMisread, Truncate,
       TruncateMisread, TruncateFails, Empty, history
  <2>2. /\ file'.events \subseteq appended' /\ delivered' \subseteq appended'
        /\ phase'[i] \in {"rewrite"} \cup Sending => held'[i].events \subseteq appended'
    <3>1. CASE Header(i)
      <4>1. CASE HeaderKnown(i) \/ HeaderFails(i) \/ HeaderPresent(i)
        BY <4>1 DEF TypeOK, HeaderKnown, HeaderFails, HeaderPresent, AfterHeader, history
      <4>2. CASE StartRewrite(i)
        BY <4>2 DEF TypeOK, StartRewrite, EmptyFile, history
      <4>3. CASE Rewrite(i)
        BY <4>3 DEF TypeOK, Rewrite, AfterHeader, history
      <4>4. CASE RewriteFails(i)
        <5>1. file'.events \subseteq held[i].events
          BY <4>4, TornFiles DEF TypeOK, RewriteFails
        <5> QED
          BY <4>4, <5>1 DEF TypeOK, RewriteFails, AfterHeader
      <4> QED
        BY <3>1, <4>1, <4>2, <4>3, <4>4 DEF Header
    <3>2. CASE Append(i)
      <4>1. file'.events \subseteq file.events \cup {op[i]}
        BY <3>2, EventWritten DEF TypeOK, Append
      <4> QED
        BY <3>2, <4>1 DEF TypeOK, Append
    <3>3. CASE AppendFails(i) \/ NothingToShip(i) \/ Refused(i) \/ RefusalMisread(i)
      <4>1. file'.events = file.events
        BY <3>3 DEF TypeOK, AppendFails, Torn, NothingToShip, Refused, RefusalMisread
      <4> QED
        BY <3>3, <4>1 DEF TypeOK, AppendFails, NothingToShip, Refused, AfterRefusal,
           RefusalMisread, history
    <3>4. CASE ReadPayload(i)
      BY <3>4 DEF TypeOK, ReadPayload, history
    <3>5. CASE Accepted(i) \/ AnswerLost(i)
      BY <3>5 DEF TypeOK, Accepted, AnswerLost, Deliver
    <3>6. CASE Truncate(i) \/ TruncateMisread(i) \/ TruncateFails(i)
      BY <3>6 DEF TypeOK, Truncate, TruncateMisread, Empty, FileAfterShip, EmptyFile,
         TruncateFails, history
    <3> QED
      BY <1>1, <3>1, <3>2, <3>3, <3>4, <3>5, <3>6 DEF Proceed
  <2> QED
    BY <2>0, <2>1, <2>2
<1>2. ASSUME UNCHANGED <<file, appended, delivered, held>>,
             \A i \in Instances :
               phase'[i] \in {"rewrite"} \cup Sending => phase'[i] = phase[i]
      PROVE  NothingInvented'
  BY <1>2
<1>3. ASSUME NEW i \in Instances, StartShip(i) \/ \E e \in Events : StartLog(i, e)
      PROVE  NothingInvented'
  BY <1>2, <1>3 DEF TypeOK, StartShip, StartLog, history
<1>4. CASE Crash
  <2>1. file'.events \subseteq file.events
          \cup UNION {held[i].events : i \in {j \in Instances : phase[j] = "rewrite"}}
    <3>1. Torn(file).events = file.events
      BY DEF TypeOK, Torn
    <3>2. \A i \in Instances : \A g \in Beginnings(held[i]) : g.events \subseteq held[i].events
      BY TornFiles DEF TypeOK
    <3> QED
      BY <1>4, <3>1, <3>2 DEF Crash, CrashFiles
  <2>2. file'.events \subseteq appended
    BY <2>1
  <2> QED
    BY <1>4, <2>2 DEF Crash
<1>5. CASE Settle \/ UNCHANGED vars \/ \E e \in Events : DropEvent(e)
  BY <1>2, <1>5 DEF Settle, DropEvent, memory, history, vars
<1> QED
  BY <1>1, <1>3, <1>4, <1>5 DEF Next

\* The portal never gets an event that no request has written to the file, however many
\* loggers rewrite, send and truncate it under mutexes of their own.
THEOREM NothingIsInvented == Spec => [](delivered \subseteq appended)
<1>1. Init => NothingInvented
  BY DEF Init, NothingInvented, EmptyFile
<1>2. NothingInvented => delivered \subseteq appended
  BY DEF NothingInvented
<1> QED
  BY <1>1, <1>2, InventedStep, TypeCorrect, PTL DEF Spec

-----------------------------------------------------------------------------
(* The log implements AtLeastOnce.                                         *)

\* Only events that were written to the file are ever lost.
LostWasAppended == cut \cup misread \subseteq appended

\* A rewrite, a payload and the event that is appended are of the file.
LEMMA LostStep ==
  ASSUME NEW i, Instances = {i}, Inv, LostWasAppended, [Next]_vars
  PROVE  LostWasAppended'
<1> USE DEF LostWasAppended, history
<1>1. ASSUME ~RewriteFails(i), ~Append(i), ~TruncateMisread(i), ~Crash
      PROVE  UNCHANGED <<cut, misread, appended>>
  BY <1>1 DEF Next, vars, StartLog, StartShip, DropEvent, Settle, Proceed, Header, HeaderKnown,
     HeaderFails, HeaderPresent, StartRewrite, Rewrite, AppendFails, ReadPayload,
     NothingToShip, Accepted, AnswerLost, Refused, RefusalMisread, Truncate, TruncateFails
<1>2. CASE RewriteFails(i)
  BY <1>2, HeldByOne DEF RewriteFails, Inv, Provenance
<1>3. CASE Append(i)
  BY <1>3 DEF Append
<1>4. CASE TruncateMisread(i)
  BY <1>4 DEF TruncateMisread, Inv, LocalsAgree, Sending, Provenance
<1>5. CASE Crash
  BY <1>5 DEF Crash, Inv, Provenance
<1> QED
  BY <1>1, <1>2, <1>3, <1>4, <1>5

\* A request or a shipment that takes the mutex, and a header that is known or cannot be
\* had, leave the log as it is.
LEMMA PromiseStutters ==
  ASSUME NEW i, Instances = {i}, UNCHANGED <<delivered, cut, misread>>,
         file'.events = file.events,
         phase[i] # "rewrite", phase'[i] # "rewrite"
  PROVE  UNCHANGED Promise!vars
  BY HeldByOne, HeldByOneNext DEF Promise!vars

\* Writing the file anew behind a header keeps the events, or loses those it cuts off.
LEMMA HeaderKeepsPromise ==
  ASSUME NEW i, Instances = {i}, Inv, Header(i)
  PROVE  [Promise!Next]_(Promise!vars)
<1> USE DEF Inv, TypeOK, Goto, AfterHeader, history, EmptyFile
<1> USE HeldByOne, HeldByOneNext
<1>1. CASE HeaderKnown(i) \/ HeaderFails(i) \/ HeaderPresent(i)
  <2>1. /\ phase[i] = "header" /\ phase'[i] \in {"append", "read", "idle"}
        /\ UNCHANGED <<file, delivered, cut, misread>>
    BY <1>1 DEF HeaderKnown, HeaderFails, HeaderPresent
  <2> QED
    BY <2>1, PromiseStutters
<1>2. CASE StartRewrite(i)
  <2>1. /\ phase[i] = "header" /\ phase'[i] = "rewrite" /\ held'[i] = file
        /\ file'.events = {} /\ UNCHANGED <<delivered, cut, misread>>
    BY <1>2 DEF StartRewrite
  <2> QED
    BY <2>1 DEF Promise!vars
<1>3. CASE Rewrite(i)
  <2>1. /\ phase[i] = "rewrite" /\ phase'[i] \in {"append", "read"} /\ file.events = {}
        /\ file'.events = held[i].events /\ UNCHANGED <<delivered, cut, misread>>
    BY <1>3 DEF Files, Rewrite, LocalsAgree
  <2> QED
    BY <2>1 DEF Promise!vars
<1>4. CASE RewriteFails(i)
  <2>1. /\ phase[i] = "rewrite" /\ phase'[i] \in {"append", "idle"} /\ file.events = {}
        /\ file'.events \subseteq held[i].events
        /\ cut' = cut \cup (held[i].events \ file'.events) /\ UNCHANGED <<delivered, misread>>
    BY <1>4, TornFiles DEF RewriteFails, LocalsAgree
  <2>2. Promise!Lose
    BY <2>1 DEF Promise!Lose
  <2> QED
    BY <2>2 DEF Promise!Next
<1> QED
  BY <1>1, <1>2, <1>3, <1>4 DEF Header

\* An append takes a new event, a POST that the portal gets delivers the whole file, and
\* a truncation forgets what was delivered.
LEMMA FileKeepsPromise ==
  ASSUME NEW i, Instances = {i}, Inv, LostWasAppended, Proceed(i), ~Header(i)
  PROVE  [Promise!Next]_(Promise!vars)
<1> USE DEF Inv, TypeOK, Goto, history
<1> USE HeldByOne, HeldByOneNext
<1>1. CASE Append(i)
  <2>1. /\ phase[i] = "append" /\ phase'[i] = "idle" /\ op[i] \in Events
        /\ file'.events = file.events \cup {op[i]} \/ file'.events = file.events
        /\ cut' = cut \cup ({op[i]} \ file'.events) /\ UNCHANGED <<delivered, misread>>
    BY <1>1, EventWritten DEF Append
  <2>2. op[i] \notin file.events \cup delivered \cup cut \cup misread
    BY <2>1 DEF LocalsAgree, Provenance, LostWasAppended
  <2>3. CASE file'.events = file.events \cup {op[i]}
    <3>1. Promise!Take
      BY <2>1, <2>2, <2>3 DEF Promise!Take
    <3> QED
      BY <3>1 DEF Promise!Next
  <2>4. CASE file'.events = file.events
    <3>1. cut' = cut \cup {op[i]}
      BY <2>1, <2>2, <2>4
    <3>2. Promise!Miss
      BY <2>1, <2>2, <2>4, <3>1 DEF Promise!Miss
    <3> QED
      BY <3>2 DEF Promise!Next
  <2> QED
    BY <2>1, <2>3, <2>4
<1>2. CASE Accepted(i) \/ AnswerLost(i)
  <2>1. /\ phase[i] = "post" /\ phase'[i] \in {"truncate", "idle"}
        /\ delivered' = delivered \cup held[i].events /\ UNCHANGED <<file, cut, misread>>
    BY <1>2 DEF Accepted, AnswerLost, Deliver
  <2>2. held[i].events = file.events
    BY <2>1 DEF LocalsAgree, Sending
  <2>3. Promise!Deliver
    BY <2>1, <2>2 DEF Promise!Deliver
  <2> QED
    BY <2>3 DEF Promise!Next
<1>3. CASE Truncate(i)
  <2>1. /\ phase[i] = "truncate" /\ phase'[i] = "idle" /\ file'.events = {}
        /\ UNCHANGED <<delivered, cut, misread>>
    BY <1>3 DEF Truncate, Empty, FileAfterShip, EmptyFile
  <2>2. file.events \subseteq delivered
    BY <2>1 DEF LocalsAgree, Sending
  <2>3. Promise!Forget
    BY <2>1, <2>2 DEF Promise!Forget
  <2> QED
    BY <2>3 DEF Promise!Next
<1>4. CASE TruncateMisread(i)
  <2>1. /\ phase[i] = "misread" /\ phase'[i] = "idle" /\ file'.events = {}
        /\ misread' = misread \cup held[i].events /\ UNCHANGED <<delivered, cut>>
    BY <1>4 DEF TruncateMisread, Empty, FileAfterShip, EmptyFile
  <2>2. held[i].events = file.events
    BY <2>1 DEF LocalsAgree, Sending
  <2>3. Promise!Lose
    BY <2>1, <2>2 DEF Promise!Lose
  <2> QED
    BY <2>3 DEF Promise!Next
<1>5. CASE ~Append(i) /\ ~Accepted(i) /\ ~AnswerLost(i) /\ ~Truncate(i) /\ ~TruncateMisread(i)
  <2>1. /\ phase[i] # "rewrite" /\ phase'[i] # "rewrite"
        /\ file'.events = file.events /\ UNCHANGED <<delivered, cut, misread>>
    <3>1. CASE AppendFails(i)
      BY <3>1 DEF AppendFails, Torn, Files
    <3>2. CASE ~AppendFails(i)
      BY <1>5, <3>2 DEF Proceed, ReadPayload, NothingToShip, Refused, AfterRefusal,
         RefusalMisread, TruncateFails
    <3> QED
      BY <3>1, <3>2
  <2> QED
    BY <2>1, PromiseStutters
<1> QED
  BY <1>1, <1>2, <1>3, <1>4, <1>5

\* Every step is one of the promise, or leaves it as it is.
LEMMA PromiseStep ==
  ASSUME NEW i, Instances = {i}
  PROVE  Inv /\ LostWasAppended /\ [Next]_vars => [Promise!Next]_(Promise!vars)
<1> SUFFICES ASSUME Inv, LostWasAppended, [Next]_vars
             PROVE  [Promise!Next]_(Promise!vars)
  OBVIOUS
<1> USE HeldByOne, HeldByOneNext
<1>1. CASE Crash
  <2>1. /\ phase'[i] = "idle" /\ UNCHANGED <<delivered, misread>>
        /\ cut' = cut \cup (HeldIn("rewrite") \ file'.events)
    BY <1>1 DEF Crash
  <2>2. CASE phase[i] = "rewrite"
    <3>1. file.events = {} /\ file'.events \subseteq held[i].events
      BY <1>1, <2>2, AfterCrash DEF Inv, LocalsAgree, EmptyFile
    <3>2. Promise!Lose
      BY <2>1, <2>2, <3>1 DEF Promise!Lose
    <3> QED
      BY <3>2 DEF Promise!Next
  <2>3. CASE phase[i] # "rewrite"
    <3>1. HeldIn("rewrite") = {} /\ file'.events = file.events
      BY <1>1, <2>3, AfterCrash DEF Inv
    <3> QED
      BY <2>1, <2>3, <3>1, PromiseStutters
  <2> QED
    BY <2>2, <2>3
<1>2. ASSUME StartShip(i) \/ (\E e \in Events : StartLog(i, e))
      PROVE  UNCHANGED Promise!vars
  <2>1. phase[i] = "idle" /\ phase'[i] = "header" /\ UNCHANGED <<file, delivered, cut, misread>>
    BY <1>2 DEF StartShip, StartLog, Goto, history, Inv, TypeOK
  <2> QED
    BY <2>1, PromiseStutters
<1>3. ASSUME Settle \/ UNCHANGED vars \/ \E e \in Events : DropEvent(e)
      PROVE  UNCHANGED Promise!vars
  <2>1. UNCHANGED <<file, delivered, cut, misread, phase, held>>
    BY <1>3 DEF Settle, vars, DropEvent, memory, history
  <2> QED
    BY <2>1 DEF Promise!vars, HeldIn
<1> QED
  BY <1>1, <1>2, <1>3, HeaderKeepsPromise, FileKeepsPromise DEF Next

\* EventLogger, alone on its file, implements AtLeastOnce: the portal gets all that the file
\* holds, and an event that is forgotten is one that the portal has, or that a write cut
\* short or a refusal taken for success has lost.
THEOREM LogRefines == ASSUME OneLogger PROVE Spec => RefinesPromise
<1> PICK i : Instances = {i}
  BY DEF OneLogger
<1>1. Init => LostWasAppended /\ Promise!Init
  BY HeldByOne DEF Init, LostWasAppended, Promise!Init, EmptyFile
<1>2. Inv /\ LostWasAppended /\ [Next]_vars => LostWasAppended'
  BY LostStep
<1>3. Inv /\ LostWasAppended /\ [Next]_vars => [Promise!Next]_(Promise!vars)
  BY PromiseStep
<1> QED
  BY <1>1, <1>2, <1>3, Invariance, PTL DEF Spec, RefinesPromise, Promise!Spec

=============================================================================
