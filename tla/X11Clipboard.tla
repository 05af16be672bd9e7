----------------------------- MODULE X11Clipboard --------------------------
(***************************************************************************)
(* The clipboard of the X11 client:                                        *)
(* crates/gpui-linux/src/linux/x11/clipboard.rs and its calls in           *)
(* x11/client.rs.  The main thread writes, reads and finally drops the     *)
(* clipboard; the thread of serve_requests answers the requests of other   *)
(* clients with the data of the last write; when the clipboard is dropped  *)
(* its contents are offered to the clipboard manager.                      *)
(*                                                                         *)
(* The X server, the other clients and the clipboard manager are external. *)
(* The server handles a request as it is flushed, and delivers the events  *)
(* of a connection in order.  There is one selection, CLIPBOARD, one       *)
(* Clipboard handle (x11/client.rs makes one) and one other client.  A     *)
(* write is known by its number, its format is Formats[OurFormat]; a       *)
(* content is whole or one chunk of an INCR transfer.                      *)
(***************************************************************************)
EXTENDS Integers, Sequences, Functions

CONSTANTS
  Formats,        \* the formats of get_any, in their order
  OurFormat,      \* the index of the format write uses
  Chunks,         \* chunks of an INCR transfer
  MaxWrites, MaxTakes, MaxReads, MaxRequests  \* bounds: calls of the program,
                  \* new contents of the other client, requests of a client

ASSUME X11ClipboardAssumption ==
  /\ Formats \in Seq(STRING) /\ IsInjective(Formats) /\ OurFormat \in DOMAIN Formats
  \* Other atoms of the protocol, and what stands for no format here.
  /\ Range(Formats) \cap {"TARGETS", "ATOM", "INCR", "none", "error"} = {}
  /\ {Chunks, MaxWrites, MaxTakes, MaxReads, MaxRequests} \subseteq Nat /\ Chunks > 0

VARIABLES
  owner,      \* of the selection, at the X server: "us", "other" or "none"
  sup, big,   \* what the other client offers; in INCR transfers or not
  data,       \* the data of the selection: the number of a write, 0 for None
  events,     \* of the server thread's connection
  srv,        \* the server thread: "wait", "served", "stopped"
  target,     \* the target of the request it has just answered
  written, notified, handover,  \* the handover to the clipboard manager
  mgr,        \* the manager: "absent", "idle", "asked" or "notified"
  pc,         \* the main thread
  read,       \* the read in progress: stage, index, target, incr, chunks got
  toOther,    \* targets the other client has still to convert for our reader
  answers,    \* events of the reader's connection
  prop,       \* the property ARBOARD_CLIPBOARD of the reader's window
  xfer,       \* chunks of an INCR transfer still to come, the end included
  result,     \* of the last read
  nw, nt, nr, na, nm,  \* writes, takes, reads, requests by other and manager
  saved,      \* history: the manager was given the data
  stale,      \* history: SelectionClear was handled while we own the selection
  late, changed  \* history: this read has timed out; the other content changed

serving == << events, srv, target, written, notified >>
offer == << owner, sup, big >>
reading == << read, toOther, answers, prop, xfer, result, late, changed >>
counts == << nw, nt, nr, na, nm >>
vars == << offer, data, serving, handover, mgr, pc, reading, counts, saved, stale >>

NoProp == [type |-> "none", part |-> "whole", list |-> {}]
NoXfer == [type |-> "none", left |-> 0]
NoRead == [stage |-> "none", i |-> 0, target |-> "none", incr |-> FALSE, got |-> 0]
NoResult == [type |-> "none", part |-> "whole"]
Error == [type |-> "error", part |-> "whole"]
FormatSet == Range(Formats)

Init ==
  /\ owner = "none" /\ sup = {} /\ big = FALSE
  /\ data = 0 /\ events = <<>> /\ srv = "wait" /\ target = "none"
  /\ written = FALSE /\ notified = FALSE /\ handover = "idle"
  /\ mgr \in {"absent", "idle"} /\ pc = "idle"
  /\ read = NoRead /\ toOther = <<>> /\ answers = <<>> /\ prop = NoProp /\ xfer = NoXfer
  /\ result = NoResult /\ nw = 0 /\ nt = 0 /\ nr = 0 /\ na = 0 /\ nm = 0
  /\ saved = FALSE /\ stale = FALSE /\ late = FALSE /\ changed = FALSE

----------------------------------------------------------------------------
(* Writing                                                                 *)

\* write, first half: become the owner at the X server.  What the other
\* client offered, and what was read of it, is history.
SetOwner ==
  /\ pc = "idle" /\ nw < MaxWrites /\ nw' = nw + 1
  /\ owner' = "us" /\ pc' = "write"
  /\ sup' = {} /\ big' = FALSE /\ result' = NoResult /\ late' = FALSE /\ changed' = FALSE
  /\ UNCHANGED << data, serving, handover, mgr, read, toOther, answers, prop, xfer, nt, nr, na,
                  nm, saved, stale >>

KeepOldData ==
  /\ pc = "write" /\ pc' = "idle"
  /\ data' = (IF data = 0 THEN nw ELSE data) /\ stale' = FALSE
  /\ UNCHANGED << offer, serving, handover, mgr, reading, counts, saved >>

\* Second half: set the data.  write_to_clipboard then stores the same item
\* in clipboard_item, which is always the last write.
SetData ==
  /\ pc = "write" /\ pc' = "idle"
  /\ data' = nw /\ stale' = FALSE
  /\ UNCHANGED << offer, serving, handover, mgr, reading, counts, saved >>

----------------------------------------------------------------------------
(* serve_requests                                                          *)

Event(k) == srv = "wait" /\ events # <<>> /\ Head(events).kind = k
            /\ events' = Tail(events)

\* Somebody else owns the selection: forget the data.
SelectionClear ==
  /\ Event("clear")
  /\ data' = 0 /\ stale' = (owner = "us")
  /\ UNCHANGED << offer, srv, target, written, notified, handover, mgr, pc, reading,
                  counts, saved >>

\* handle_selection_request: the answer, whatever it is, goes to the requestor.
SelectionRequest ==
  /\ Event("request")
  /\ target' = Head(events).target /\ srv' = "served"
  /\ saved' = (saved \/ (/\ Head(events).from = "manager" /\ data # 0
                         /\ Head(events).target = Formats[OurFormat]))
  /\ UNCHANGED << offer, data, written, notified, handover, mgr, pc, reading, counts,
                  stale >>

\* Then the handover state is locked and brought up to date.
AfterRequest ==
  /\ srv = "served" /\ srv' = "wait"
  /\ LET done == handover = "in_progress" /\ target # "TARGETS"
     IN  /\ written' = (written \/ done)
         /\ handover' = IF done /\ notified THEN "finished" ELSE handover
  /\ target' = "none"
  /\ UNCHANGED << offer, data, events, notified, mgr, pc, reading, counts, 
                  saved, stale >>

SelectionNotify ==
  /\ Event("notify")
  /\ notified' = (notified \/ handover = "in_progress")
  /\ handover' = IF handover = "in_progress" /\ written THEN "finished" ELSE handover
  /\ UNCHANGED << offer, data, srv, target, written, mgr, pc, reading, counts, 
                  saved, stale >>

DestroyNotify ==
  /\ Event("destroy") /\ srv' = "stopped"
  /\ UNCHANGED << offer, data, target, written, notified, handover, mgr, pc, reading,
                  counts, saved, stale >>

----------------------------------------------------------------------------
(* Dropping the Clipboard                                                  *)

\* ask_clipboard_manager_to_request_our_data: nothing to do if we are not the
\* owner ...
Drop ==
  /\ pc = "idle" /\ pc' = IF owner = "us" THEN "offer" ELSE "destroy"
  /\ result' = NoResult /\ late' = FALSE /\ changed' = FALSE
  /\ UNCHANGED << offer, data, serving, handover, mgr, read, toOther, answers, prop, xfer,
                  counts, saved, stale >>

\* ... or have no data; otherwise the manager is asked, and if there
\* is none the X server answers in its place.
AskManager ==
  /\ pc = "offer"
  /\ IF data = 0 THEN pc' = "destroy" /\ UNCHANGED << handover, mgr, events >>
     ELSE /\ pc' = "handover" /\ handover' = "in_progress"
          /\ IF mgr = "absent" THEN events' = Append(events, [kind |-> "notify"]) /\ UNCHANGED mgr
             ELSE mgr' = "asked" /\ UNCHANGED events
  /\ UNCHANGED << offer, data, srv, target, written, notified, reading, counts, 
                  saved, stale >>

WaitForHandover ==
  /\ pc = "handover" /\ handover = "finished" /\ pc' = "destroy"
  /\ UNCHANGED << offer, data, serving, handover, mgr, reading, counts, saved, stale >>

\* The wait ends when the handover is finished or after 100 ms.
HandoverEnds ==
  /\ pc = "handover" /\ pc' = "destroy"
  /\ UNCHANGED << offer, data, serving, handover, mgr, reading, counts, saved, stale >>

DestroyWindow ==
  /\ pc = "destroy" /\ pc' = "join"
  /\ owner' = IF owner = "us" THEN "none" ELSE owner
  /\ events' = Append(events, [kind |-> "destroy"])
  /\ UNCHANGED << sup, big, data, srv, target, written, notified, handover, mgr,
                  reading, counts, saved, stale >>

Join ==
  /\ pc = "join" /\ srv = "stopped" /\ pc' = "gone"
  /\ UNCHANGED << offer, data, serving, handover, mgr, reading, counts, saved, stale >>

----------------------------------------------------------------------------
(* Reading                                                                 *)

\* read_single deletes the property and asks the owner; with no owner the X
\* server refuses at once.
ReadSingle(stage, i, t, ans) ==
  /\ read' = [stage |-> stage, i |-> i, target |-> t, incr |-> FALSE, got |-> 0]
  /\ prop' = NoProp
  /\ IF owner = "other" THEN toOther' = Append(toOther, t) /\ answers' = ans
     ELSE toOther' = toOther /\ answers' = Append(ans, [kind |-> "none", target |-> t])

\* The read is over; its connection is closed.
ReadEnds(r) ==
  /\ result' = r /\ pc' = "idle" /\ read' = NoRead
  /\ toOther' = <<>> /\ answers' = <<>> /\ prop' = NoProp /\ xfer' = NoXfer

\* read_from_clipboard: our own clipboard_item if we are the owner.
Read ==
  /\ pc = "idle" /\ nr < MaxReads /\ nr' = nr + 1
  /\ late' = FALSE /\ changed' = FALSE
  /\ IF owner = "us"
     THEN result' = [type |-> "item", part |-> "whole"]
          /\ UNCHANGED << pc, read, toOther, answers, prop >>
     ELSE /\ pc' = "read" /\ result' = NoResult
          /\ ReadSingle("targets", 0, "TARGETS", <<>>)
  /\ UNCHANGED << offer, data, serving, handover, mgr, xfer, nw, nt, na, nm, 
                  saved, stale >>

LastOf(found) == CHOOSE i \in found : \A j \in found : i >= j
FirstOf(found) == CHOOSE i \in found : \A j \in found : i <= j

AskFor(stage, i, ans) ==
  ReadSingle(stage, i, Formats[i], ans) /\ UNCHANGED << result, pc, xfer >>

\* Without a list of targets the formats are tried one by one.
Fallback(i, ans) ==
  IF i <= Len(Formats) THEN AskFor("fallback", i, ans) ELSE ReadEnds(Error)

\* What read does with the result of read_single, ans being the events that
\* are left: with the list of targets, ask for the first format in it.
Continue(got, ans) ==
  LET found == {i \in DOMAIN Formats : got.type = "ATOM" /\ Formats[i] \in got.list}
      ok == got.type \in FormatSet
  IN  \/ read.stage = "targets" /\ found # {} /\ AskFor("single", FirstOf(found), ans)
      \/ read.stage = "targets" /\ found = {} /\ Fallback(1, ans)
      \/ read.stage # "targets" /\ ok /\ ReadEnds([type |-> got.type, part |-> got.part])
      \/ read.stage = "single" /\ ~ok /\ ReadEnds(Error)
      \/ read.stage = "fallback" /\ ~ok /\ Fallback(read.i + 1, ans)

NotAvailable == [type |-> "error", part |-> "whole", list |-> {}]

ReadUnchanged == UNCHANGED << offer, data, serving, handover, mgr, counts, saved, stale,
                              changed >>

\* handle_read_selection_notify.
GotNotify ==
  LET e == Head(answers)
  IN  /\ pc = "read" /\ answers # <<>> /\ e.kind \in {"none", "notify"}
      /\ IF e.kind = "none" \/ e.target # read.target
         THEN Continue(NotAvailable, Tail(answers))
         ELSE IF read.incr
         THEN answers' = Tail(answers) /\ UNCHANGED << read, toOther, prop, xfer, result, pc >>
         ELSE IF prop.type = "INCR"
         THEN /\ read' = [read EXCEPT !.incr = TRUE] /\ prop' = NoProp
              /\ answers' = Tail(answers) /\ UNCHANGED << toOther, xfer, result, pc >>
         ELSE Continue(prop, Tail(answers))
      /\ UNCHANGED late /\ ReadUnchanged

\* handle_read_property_notify: one more chunk, or the end.  A property of
\* another type reads as empty.
GotProperty ==
  LET wanted == IF read.target = "TARGETS" THEN "ATOM" ELSE read.target
      whole == [type |-> read.target, list |-> {},
                part |-> IF read.got = Chunks THEN "whole" ELSE "chunk"]
  IN  /\ pc = "read" /\ answers # <<>> /\ Head(answers).kind = "property"
      /\ IF ~read.incr
         THEN answers' = Tail(answers) /\ UNCHANGED << read, toOther, prop, xfer, result, pc >>
         ELSE IF prop.type # wanted \/ prop.part = "end"
         THEN Continue(whole, Tail(answers))
         ELSE /\ read' = [read EXCEPT !.got = @ + 1] /\ prop' = NoProp
              /\ answers' = Tail(answers) /\ UNCHANGED << toOther, xfer, result, pc >>
      /\ UNCHANGED late /\ ReadUnchanged

\* The time is up: the answer may still come, to the next read_single.
ReadTimeout ==
  /\ pc = "read" /\ late' = TRUE
  /\ Continue(NotAvailable, answers)
  /\ ReadUnchanged

----------------------------------------------------------------------------
(* The other client, the manager and the X server                          *)

\* The other client takes the selection with a new content.
OtherTakes(S, b) ==
  /\ pc # "gone" /\ nt < MaxTakes /\ nt' = nt + 1
  /\ owner' = "other" /\ sup' = S /\ big' = b
  /\ events' = IF owner = "us" THEN Append(events, [kind |-> "clear"]) ELSE events
  /\ changed' = TRUE
  /\ UNCHANGED << data, srv, target, written, notified, handover, mgr, pc, read,
                  toOther, answers, prop, xfer, result, late, nw, nr, na, nm, saved, stale >>

Request(from, t) == [kind |-> "request", from |-> from, target |-> t]

OtherRequests(t) ==
  /\ owner = "us" /\ na < MaxRequests /\ na' = na + 1
  /\ events' = Append(events, Request("other", t))
  /\ UNCHANGED << offer, data, srv, target, written, notified, handover, mgr, pc,
                  reading, nw, nt, nr, nm, saved, stale >>

\* The manager asks for what we offer and says that it is done, in any order.
ManagerRequests(t) ==
  /\ mgr \in {"asked", "notified"} /\ owner = "us" /\ nm < MaxRequests /\ nm' = nm + 1
  /\ events' = Append(events, Request("manager", t))
  /\ UNCHANGED << offer, data, srv, target, written, notified, handover, mgr, pc,
                  reading, nw, nt, nr, na, saved, stale >>

ManagerNotifies ==
  /\ mgr = "asked" /\ pc # "join" /\ pc # "gone" /\ mgr' = "notified"
  /\ events' = Append(events, [kind |-> "notify"])
  /\ UNCHANGED << offer, data, srv, target, written, notified, handover, pc, reading,
                  counts, saved, stale >>

\* The other client converts for our reader.
OtherConverts ==
  LET t == Head(toOther)
  IN  /\ toOther # <<>> /\ toOther' = Tail(toOther)
      /\ IF t = "TARGETS" \/ t \in sup
         THEN /\ prop' = IF t = "TARGETS"
                         THEN [type |-> "ATOM", part |-> "whole", list |-> sup]
                         ELSE [type |-> IF big THEN "INCR" ELSE t, part |-> "whole", list |-> {}]
              /\ xfer' = IF t # "TARGETS" /\ big THEN [type |-> t, left |-> Chunks + 1] ELSE xfer
              /\ answers' = answers \o << [kind |-> "property", target |-> t],
                                          [kind |-> "notify", target |-> t] >>
         ELSE /\ answers' = Append(answers, [kind |-> "none", target |-> t])
              /\ UNCHANGED << prop, xfer >>
      /\ UNCHANGED << offer, data, serving, handover, mgr, pc, read, result, late,
                      changed, counts, saved, stale >>

\* It sends the next chunk when the property has been deleted.
OtherSendsChunk ==
  /\ xfer # NoXfer /\ prop = NoProp /\ pc = "read"
  /\ prop' = [type |-> xfer.type, list |-> {}, part |-> IF xfer.left = 1 THEN "end" ELSE "chunk"]
  /\ xfer' = IF xfer.left = 1 THEN NoXfer ELSE [xfer EXCEPT !.left = @ - 1]
  /\ answers' = Append(answers, [kind |-> "property", target |-> "none"])
  /\ UNCHANGED << offer, data, serving, handover, mgr, pc, read, toOther, result, late,
                  changed, counts, saved, stale >>

----------------------------------------------------------------------------
Targets == FormatSet \cup {"TARGETS"}

Main == \/ SetData \/ AskManager \/ HandoverEnds \/ DestroyWindow \/ Join
        \/ GotNotify \/ GotProperty \/ ReadTimeout
Server == SelectionClear \/ SelectionRequest \/ AfterRequest \/ SelectionNotify \/ DestroyNotify

Next ==
  \/ SetOwner \/ Drop \/ Read \/ Main \/ Server
  \/ \E S \in SUBSET FormatSet, b \in BOOLEAN : OtherTakes(S, b)
  \/ \E t \in Targets : OtherRequests(t) \/ ManagerRequests(t)
  \/ ManagerNotifies \/ OtherConverts \/ OtherSendsChunk

Spec == Init /\ [][Next]_vars

\* Both threads of the program are scheduled and its time-outs expire; the
\* other clients owe us nothing.
Fairness == WF_vars(Main) /\ WF_vars(Server)
LiveSpec == Spec /\ Fairness

----------------------------------------------------------------------------
(* Properties                                                              *)

\* While we own the selection and no write is under way, what we give to
\* other clients is the last write.  The exception is a SelectionClear of an
\* earlier loss that is handled only after we wrote again: it erases the new
\* data, see OwnerAlwaysHasData.
OwnerHasData == owner = "us" /\ pc # "write" /\ ~stale => data = nw

\* "Just setting the data, and the `serve_requests` will take care of the
\* rest."  This does not hold.
OwnerAlwaysHasData == owner = "us" /\ pc # "write" => data = nw

\* "The first format from `formats`, which the clipboard owner supports will
\* be the format of the return value", and the value is whole; an error only
\* if there is none: for every read that saw no time-out and no new content.
ReadIsFirstFormat ==
  LET best == {i \in DOMAIN Formats : Formats[i] \in sup}
  IN  (pc = "idle" /\ result # NoResult /\ owner = "other" /\ ~late /\ ~changed) =>
        IF best = {} THEN result = Error
        ELSE result = [type |-> Formats[CHOOSE i \in best : \A j \in best : i <= j],
                       part |-> "whole"]

\* A read returns, however slow the owner is and whichever of the modelled
\* answers it gives, and so does dropping the clipboard: with a manager,
\* without one, or with one that does not answer.  A transfer in parts has at
\* most Chunks + 1 parts: every part starts the timeout anew, so an owner
\* that sends parts for ever keeps the read going for ever.
CallsReturn ==
  /\ (pc = "read") ~> (pc = "idle")
  /\ (pc \in {"offer", "handover", "destroy", "join"}) ~> (pc = "gone")

\* "Only set written, when the actual contents were written": the handover is
\* finished only when the manager has the data.  This does not hold.
FinishedMeansSaved == handover = "finished" => saved
============================================================================
