------------------------------ MODULE EventLog ------------------------------
(***************************************************************************)
(* EventLogger of logging.go: the decision log, a file that every request  *)
(* appends an event to and that is posted to the publisher portal and      *)
(* truncated when the portal took it.                                      *)
(*                                                                         *)
(* Instances are the live values of New in one process.  Traefik builds    *)
(* the middleware once per router that uses it and again at every reload,  *)
(* and StartShippingLoop never stops, so several can share one file; each  *)
(* has a mutex of its own.  phase[i] is how far the holder of i's mutex    *)
(* has come, "idle" when the mutex is free; requests waiting for it are    *)
(* interchangeable.  A shipment starts at a tick of the shipping loop or   *)
(* after a write: the interval only says when, so here it is any time.     *)
(*                                                                         *)
(* The order of the events in the file plays no role: a file is whether it *)
(* starts with the metadata line, the set of its events, and its junk, the *)
(* torn lines that writes cut short have left.  Junk is "open" while the   *)
(* torn line has no end, so that the next event is glued to it, and        *)
(* "ended" afterwards; several torn lines count as one.  A torn write is   *)
(* taken to miss more than the newline.                                    *)
(***************************************************************************)
CONSTANTS
  Instances,
  Events,       \* the events that requests log, all different
  Ship          \* the operation that posts the file, no event

ASSUME ShipAssumption == Ship \notin Events

VARIABLES
  phase,        \* [Instances]: how far the holder of l.mu has come
  op,           \* [Instances]: the event it logs, or Ship
  held,         \* [Instances]: what it read from the file
  applied,      \* [Instances]: l.metadataApplied
  failed,       \* [Instances]: l.metadataErr # nil
  file,         \* the decision log
  dir,          \* the directory of the log exists
  issued,       \* events a request has produced
  appended,     \* history: events written to the file
  delivered,    \* history: events the portal has taken
  twice,        \* history: events the portal has taken more than once
  excused,      \* history: taken, with the answer or the truncation missing
  cut,          \* history: events lost to a write cut short
  misread,      \* history: events truncated after a refusal taken for success
  settled       \* from now on the disk, the portal and the process are well

memory == <<phase, op, held, applied, failed>>
history == <<appended, delivered, twice, excused, cut, misread>>
vars == <<phase, op, held, applied, failed, file, dir, issued, appended,
          delivered, twice, excused, cut, misread, settled>>

Junk == {"none", "ended", "open"}
Files == [hdr : BOOLEAN, events : SUBSET Events, junk : Junk]
EmptyFile == [hdr |-> FALSE, events |-> {}, junk |-> "none"]

\* A write that fails half-way leaves its beginning, without the newline.
Torn(f) == [f EXCEPT !.junk = "open"]

\* An event behind a torn line becomes part of it.
WithEvent(f, e) ==
  IF f.junk = "open" THEN [f EXCEPT !.junk = "ended"] ELSE [f EXCEPT !.events = @ \cup {e}]

\* What is left of f behind a new header when writing both is cut short.
Beginnings(f) ==
  {EmptyFile, Torn(EmptyFile)}
    \cup [hdr : {TRUE}, events : SUBSET f.events, junk : {"none", "open", f.junk}]

Goto(i, p) == phase' = [phase EXCEPT ![i] = p]

-----------------------------------------------------------------------------
(* Choices of the code that are made in one place each.                    *)

\* Log appends whatever became of the header; a shipment needs it.
AfterHeader(i, ok) ==
  IF op[i] # Ship THEN "append" ELSE IF ok THEN "read" ELSE "idle"

\* readLogPayloadLocked: a first line, whatever it is, and at least one more.
TwoLines(s) == \E a, b \in s : a # b

MutNeedsTwoEvents(f) == TwoLines(f.events)
MutHeaderSuffices(f) == f.hdr
Shippable(f) ==
  \/ f.hdr /\ (f.events # {} \/ f.junk # "none")
  \/ f.events # {} /\ f.junk # "none"
  \/ TwoLines(f.events)

\* An answer that is no 2xx, or one whose first KiB is JSON with error=true, ends the
\* shipment.
MutTruncateAnyway == "truncate"
MutRetryUnderLock == "read"
AfterRefusal == "idle"

\* resetLogAfterShipLocked: the file is emptied and the header is due again.
MutKeepFile == file
FileAfterShip == EmptyFile

MutHeaderStays == TRUE
AppliedAfterShip == FALSE

-----------------------------------------------------------------------------
(* Taking the mutex.                                                       *)

\* Log: the directory is made before the mutex is taken.
StartLog(i, e) ==
  /\ phase[i] = "idle" /\ e \notin issued
  /\ dir' = TRUE
  /\ issued' = issued \cup {e}
  /\ op' = [op EXCEPT ![i] = e]
  /\ Goto(i, "header")
  /\ UNCHANGED <<held, applied, failed, file, history, settled>>

\* Log: no JSON, or no directory: the event is dropped.
DropEvent(e) ==
  /\ e \notin issued /\ ~settled
  /\ issued' = issued \cup {e}
  /\ UNCHANGED <<memory, file, dir, history, settled>>

\* shipAndTruncateOnce, from the shipping loop or after a write.
StartShip(i) ==
  /\ phase[i] = "idle"
  /\ op' = [op EXCEPT ![i] = Ship]
  /\ Goto(i, "header")
  /\ UNCHANGED <<held, applied, failed, file, dir, issued, history, settled>>

-----------------------------------------------------------------------------
(* ensureMetadataHeaderLocked.                                             *)

\* The outcome of the first call is kept until a shipment succeeds.
HeaderKnown(i) ==
  /\ phase[i] = "header" /\ applied[i]
  /\ Goto(i, AfterHeader(i, ~failed[i]))
  /\ UNCHANGED <<op, held, applied, failed, file, dir, issued, history, settled>>

\* The file cannot be read, or not be created: the error is kept as well.
HeaderFails(i) ==
  /\ phase[i] = "header" /\ ~applied[i]
  /\ ~settled \/ ~dir
  /\ applied' = [applied EXCEPT ![i] = TRUE]
  /\ failed' = [failed EXCEPT ![i] = TRUE]
  /\ Goto(i, AfterHeader(i, FALSE))
  /\ UNCHANGED <<op, held, file, dir, issued, history, settled>>

HeaderPresent(i) ==
  /\ phase[i] = "header" /\ ~applied[i]
  /\ file.hdr
  /\ applied' = [applied EXCEPT ![i] = TRUE]
  /\ Goto(i, AfterHeader(i, ~failed[i]))
  /\ UNCHANGED <<op, held, failed, file, dir, issued, history, settled>>

\* An empty file, or one whose first line is an event, is written anew behind a
\* header.  os.WriteFile truncates first and writes then.
StartRewrite(i) ==
  /\ phase[i] = "header" /\ ~applied[i]
  /\ dir /\ ~file.hdr
  /\ held' = [held EXCEPT ![i] = file]
  /\ file' = EmptyFile
  /\ Goto(i, "rewrite")
  /\ UNCHANGED <<op, applied, failed, dir, issued, history, settled>>

Rewrite(i) ==
  /\ phase[i] = "rewrite"
  /\ file' = [held[i] EXCEPT !.hdr = TRUE]
  /\ applied' = [applied EXCEPT ![i] = TRUE]
  /\ failed' = [failed EXCEPT ![i] = FALSE]
  /\ Goto(i, AfterHeader(i, TRUE))
  /\ UNCHANGED <<op, held, dir, issued, history, settled>>

\* The disk is full, say, after the truncation or in the middle of the content.
RewriteFails(i) ==
  /\ phase[i] = "rewrite" /\ ~settled
  /\ applied' = [applied EXCEPT ![i] = TRUE]
  /\ failed' = [failed EXCEPT ![i] = TRUE]
  /\ file' \in Beginnings(held[i])
  /\ cut' = cut \cup (held[i].events \ file'.events)
  /\ Goto(i, AfterHeader(i, FALSE))
  /\ UNCHANGED <<op, held, dir, issued, appended, delivered, twice, excused, misread,
                 settled>>

-----------------------------------------------------------------------------
(* The rest of Log.                                                        *)

Append(i) ==
  /\ phase[i] = "append"
  /\ file' = WithEvent(file, op[i])
  /\ appended' = appended \cup {op[i]}
  /\ cut' = cut \cup ({op[i]} \ file'.events)
  /\ Goto(i, "idle")
  /\ UNCHANGED <<op, held, applied, failed, dir, issued, delivered, twice, excused,
                 misread, settled>>

\* The file cannot be opened, or takes a part of the line only.
AppendFails(i) ==
  /\ phase[i] = "append" /\ ~settled
  /\ file' \in {file, Torn(file)}
  /\ Goto(i, "idle")
  /\ UNCHANGED <<op, held, applied, failed, dir, issued, history, settled>>

-----------------------------------------------------------------------------
(* The rest of shipAndTruncateOnce, with the mutex held during the request. *)

ReadPayload(i) ==
  /\ phase[i] = "read"
  /\ Shippable(file)
  /\ held' = [held EXCEPT ![i] = file]
  /\ Goto(i, "post")
  /\ UNCHANGED <<op, applied, failed, file, dir, issued, history, settled>>

NothingToShip(i) ==
  /\ phase[i] = "read"
  /\ ~Shippable(file) \/ ~settled      \* or the file cannot be read
  /\ Goto(i, "idle")
  /\ UNCHANGED <<op, held, applied, failed, file, dir, issued, history, settled>>

Deliver(i) ==
  /\ delivered' = delivered \cup held[i].events
  /\ twice' = twice \cup (delivered \cap held[i].events)

Accepted(i) ==
  /\ phase[i] = "post"
  /\ Deliver(i)
  /\ Goto(i, "truncate")
  /\ UNCHANGED <<op, held, applied, failed, file, dir, issued, appended, excused, cut,
                 misread, settled>>

\* The portal took the payload, and the answer is lost or comes after 15 s.
AnswerLost(i) ==
  /\ phase[i] = "post" /\ ~settled
  /\ Deliver(i)
  /\ excused' = excused \cup held[i].events
  /\ Goto(i, "idle")
  /\ UNCHANGED <<op, held, applied, failed, file, dir, issued, appended, cut, misread,
                 settled>>

\* A line that is no JSON is a reason to refuse a payload for ever.
MayRefuse(i) == ~settled \/ held[i].junk # "none"

\* The portal refuses the payload, or does not get it.
Refused(i) ==
  /\ phase[i] = "post" /\ MayRefuse(i)
  /\ Goto(i, AfterRefusal)
  /\ UNCHANGED <<op, held, applied, failed, file, dir, issued, history, settled>>

\* The portal refuses the payload with a 2xx whose JSON is longer than 1024 bytes, cut
\* short, or not declared as JSON: jsonAPIError finds no error in it.
RefusalMisread(i) ==
  /\ phase[i] = "post" /\ MayRefuse(i)
  /\ Goto(i, "misread")
  /\ UNCHANGED <<op, held, applied, failed, file, dir, issued, history, settled>>

Empty(i) ==
  /\ file' = FileAfterShip
  /\ applied' = [applied EXCEPT ![i] = AppliedAfterShip]
  /\ failed' = [failed EXCEPT ![i] = FALSE]
  /\ Goto(i, "idle")

Truncate(i) ==
  /\ phase[i] = "truncate"
  /\ Empty(i)
  /\ UNCHANGED <<op, held, dir, issued, history, settled>>

TruncateMisread(i) ==
  /\ phase[i] = "misread"
  /\ Empty(i)
  /\ misread' = misread \cup held[i].events
  /\ UNCHANGED <<op, held, dir, issued, appended, delivered, twice, excused, cut, settled>>

TruncateFails(i) ==
  /\ phase[i] \in {"truncate", "misread"} /\ ~settled
  /\ excused' = excused \cup (held[i].events \cap delivered)
  /\ Goto(i, "idle")
  /\ UNCHANGED <<op, held, applied, failed, file, dir, issued, appended, delivered,
                 twice, cut, misread, settled>>

-----------------------------------------------------------------------------
HeldIn(p) == UNION {held[i].events : i \in {j \in Instances : phase[j] = p}}

\* The file after a crash: any write under way may have been cut short.
CrashFiles ==
  {file}
    \cup {Torn(file) : i \in {j \in Instances : phase[j] = "append"}}
    \cup UNION {Beginnings(held[i]) : i \in {j \in Instances : phase[j] = "rewrite"}}

\* The process stops: what memory holds is gone.
Crash ==
  /\ ~settled
  /\ file' \in CrashFiles
  /\ cut' = cut \cup (HeldIn("rewrite") \ file'.events)
  /\ excused' = excused \cup HeldIn("truncate")
  /\ phase' = [i \in Instances |-> "idle"]
  /\ op' = [i \in Instances |-> Ship]
  /\ held' = [i \in Instances |-> EmptyFile]
  /\ applied' = [i \in Instances |-> FALSE]
  /\ failed' = [i \in Instances |-> FALSE]
  /\ UNCHANGED <<dir, issued, appended, delivered, twice, misread, settled>>

Settle ==
  /\ settled' = TRUE
  /\ UNCHANGED <<memory, file, dir, issued, history>>

-----------------------------------------------------------------------------
Init ==
  /\ phase = [i \in Instances |-> "idle"]
  /\ op = [i \in Instances |-> Ship]
  /\ held = [i \in Instances |-> EmptyFile]
  /\ applied = [i \in Instances |-> FALSE]
  /\ failed = [i \in Instances |-> FALSE]
  /\ file = EmptyFile
  /\ dir \in BOOLEAN
  /\ issued = {} /\ appended = {} /\ delivered = {}
  /\ twice = {} /\ excused = {} /\ cut = {} /\ misread = {}
  /\ settled = FALSE

Header(i) ==
  \/ HeaderKnown(i) \/ HeaderFails(i) \/ HeaderPresent(i)
  \/ StartRewrite(i) \/ Rewrite(i) \/ RewriteFails(i)

Proceed(i) ==
  \/ Header(i)
  \/ Append(i) \/ AppendFails(i)
  \/ ReadPayload(i) \/ NothingToShip(i)
  \/ Accepted(i) \/ AnswerLost(i) \/ Refused(i) \/ RefusalMisread(i)
  \/ Truncate(i) \/ TruncateMisread(i) \/ TruncateFails(i)

Next ==
  \/ \E i \in Instances :
       \/ \E e \in Events : StartLog(i, e)
       \/ StartShip(i)
       \/ Proceed(i)
  \/ \E e \in Events : DropEvent(e)
  \/ Crash
  \/ Settle

Spec == Init /\ [][Next]_vars

\* Whoever holds a mutex goes on (the client gives up after 15 s) and the shipping
\* loop ticks.  That requests come, and what the disk and the portal do, is free.
Fairness == \A i \in Instances : WF_vars(Proceed(i)) /\ WF_vars(StartShip(i))

LiveSpec == Spec /\ Fairness

-----------------------------------------------------------------------------
(* Properties.                                                             *)

Sending == {"post", "truncate", "misread"}
Phases == {"idle", "header", "rewrite", "append", "read"} \cup Sending

\* Types, and what the local variables of Log and shipAndTruncateOnce hold by phase:
\* a request is only sent with a line behind the header.
TypeOK ==
  /\ phase \in [Instances -> Phases]
  /\ op \in [Instances -> issued \cup {Ship}]
  /\ held \in [Instances -> Files]
  /\ applied \in [Instances -> BOOLEAN] /\ failed \in [Instances -> BOOLEAN]
  /\ file \in Files /\ dir \in BOOLEAN /\ settled \in BOOLEAN
  /\ issued \subseteq Events /\ appended \subseteq issued
  /\ delivered \subseteq Events /\ twice \subseteq Events
  /\ excused \subseteq Events /\ cut \subseteq Events /\ misread \subseteq Events
  /\ \A i \in Instances :
       /\ phase[i] = "append" => op[i] \in Events
       /\ phase[i] \in {"read"} \cup Sending => op[i] = Ship
       /\ phase[i] \in Sending => held[i].events # {} \/ held[i].junk # "none"

\* An event that Log wrote to the file is in the file until the portal has it: a
\* shipment that failed, stayed unanswered or was refused, or a crash at any point,
\* never loses one.  Two ways to lose one are excepted.  A write cut short: a rewrite
\* of the file (os.WriteFile is not atomic), or a torn line to which the next event
\* is glued.  And a refusal that checkPublisherLogsResponse takes for success.
NoEventLost ==
  appended \subseteq file.events \cup delivered \cup cut \cup misread \cup HeldIn("rewrite")

Promise == INSTANCE AtLeastOnce WITH
  pending <- file.events \cup HeldIn("rewrite"), delivered <- delivered,
  lost <- cut \cup misread

\* One logger delivers at least once: a payload leaves out nothing that the file holds,
\* and the file is emptied when the portal has all of it, or when a refusal was taken
\* for success and counts as a loss; a write cut short loses what it counts as lost.
RefinesPromise == Promise!Spec

\* Every payload starts with the metadata line, as the portal's format asks: the
\* header flag in memory never says more than the file does.
PayloadHasHeader == \A i \in Instances : phase[i] = "post" => held[i].hdr

\* The portal gets an event a second time only when its answer, or the truncation
\* after it, was missing.
DuplicatesAreExcused == twice \subseteq excused

\* No shipment keeps the mutex that every request needs.
MutexIsReleased == \A i \in Instances : phase[i] # "idle" ~> phase[i] = "idle"

\* The disk and the portal are well, and the file has no torn line that the portal could
\* refuse it for.
Healthy == settled /\ file.junk = "none"

\* The events of the file reach the portal once all is well, unless creating the header
\* has failed since the last start or shipment, or an earlier refusal was
\* taken for success.
HealthyLogIsShipped ==
  \A e \in Events :
    Healthy /\ e \in file.events /\ (\A i \in Instances : ~failed[i])
      ~> e \in delivered \cup misread

\* The same without the exception for the header: "Failed ships leave the file intact
\* and the next ticker iteration retries."
LogIsShipped ==
  \A e \in Events : Healthy /\ e \in file.events ~> e \in delivered \cup misread

=============================================================================
