----------------------------- MODULE ConfigEvents -----------------------------
(***************************************************************************)
(* The stream of configuration events.  Every server process appends lines *)
(* to config_events.jsonl; in the API process a watcher polls the file and *)
(* offers each new line to the queue of every subscriber; the handler of   *)
(* the WebSocket /a2a/events accepts a client, subscribes and pushes what  *)
(* its queue holds.  A line is its number, from the start of the session.  *)
(* The queues are those of InMemoryEventBroadcaster (cloud_dog_api_kit,    *)
(* external): bounded, and a full one loses a line.                        *)
(***************************************************************************)
EXTENDS Naturals, Sequences

CONSTANTS
    Socket,         \* the sockets a page can have at once
    QueueSize,      \* subscriber_queue_size
    MaxLines        \* bound: lines up to which the other processes append

ASSUME EventsAssumption ==
    QueueSize \in Nat \ {0} /\ MaxLines \in Nat

VARIABLES
    written,        \* lines of the file
    read,           \* watcher: lines read, as _offset
    sent,           \* watcher: lines offered to the subscribers
    sock            \* the sockets

eventVars == <<written, read, sent, sock>>

\* hello: the page has not seen onopen yet.  wire: what is on the way to the
\* page.  last: the last line shown, or the last one before the subscription.
\* lost: the queue was full at least once.
Closed == [pc |-> "closed", hello |-> FALSE, queue |-> <<>>, wire |-> <<>>,
           last |-> 0, lost |-> FALSE]

Live(k) == sock[k].pc = "live"

EventsInit ==
    /\ written = 0 /\ read = 0 /\ sent = 0
    /\ sock = [k \in Socket |-> Closed]

-----------------------------------------------------------------------------
(* The file and the watcher.                                               *)

\* emit_event(), in any process.
AppendLine == written' = written + 1

\* Slip: the offset is not advanced, and the file is read from the top again.
ReadLines_FromTop ==
    /\ sent = read /\ read < written
    /\ read' = written /\ sent' = 0
    /\ UNCHANGED <<written, sock>>

\* Slip: the watcher jumps to the end of the file on each poll.
ReadLines_SkipsToEnd ==
    /\ sent = read /\ read < written
    /\ read' = written /\ sent' = written
    /\ UNCHANGED <<written, sock>>

\* _poll_once() reads what was appended since the last poll ...
ReadLines ==
    /\ sent = read /\ read < written
    /\ read' = written
    /\ UNCHANGED <<written, sent, sock>>

\* A full queue gives up its oldest line, or the new one.
Offered(c, n, oldest) ==
    IF Len(c.queue) < QueueSize THEN [c EXCEPT !.queue = Append(@, n)]
    ELSE IF oldest THEN [c EXCEPT !.queue = Append(Tail(@), n), !.lost = TRUE]
    ELSE [c EXCEPT !.lost = TRUE]

\* ... and dispatches it line by line.
Dispatch ==
    /\ sent < read /\ sent' = sent + 1
    /\ \E oldest \in BOOLEAN :
          sock' = [k \in Socket |-> IF Live(k) THEN Offered(sock[k], sent + 1, oldest)
                                   ELSE sock[k]]
    /\ UNCHANGED <<written, read>>

-----------------------------------------------------------------------------
(* The handler of a WebSocket.                                             *)

\* The key is checked before accept(), and the subscription follows it.
Accept(k) ==
    /\ sock[k].pc = "opening"
    /\ sock' = [sock EXCEPT ![k].pc = "accepted", ![k].hello = TRUE]
    /\ UNCHANGED <<written, read, sent>>

Subscribe(k) ==
    /\ sock[k].pc = "accepted"
    /\ sock' = [sock EXCEPT ![k].pc = "live", ![k].last = sent]
    /\ UNCHANGED <<written, read, sent>>

Push(k) ==
    /\ Live(k) /\ sock[k].queue # <<>>
    /\ sock' = [sock EXCEPT ![k].queue = Tail(@),
                            ![k].wire = Append(@, Head(sock[k].queue))]
    /\ UNCHANGED <<written, read, sent>>

\* The server stops and starts again: it closes its sockets, and the watcher
\* rewinds, which offers the lines of the file to nobody.
RestartEvents ==
    /\ read' = written /\ sent' = written
    /\ sock' = [k \in Socket |-> Closed]
    /\ UNCHANGED written

\* Steps of the server and of the other processes.
OtherLine == written < MaxLines /\ AppendLine /\ UNCHANGED <<read, sent, sock>>
ServerStep(k) == Accept(k) \/ Subscribe(k) \/ Push(k)
WatcherStep == ReadLines \/ Dispatch

-----------------------------------------------------------------------------

SocketState ==
    [pc : {"closed", "opening", "accepted", "live"}, hello : BOOLEAN,
     queue : Seq(Nat), wire : Seq(Nat), last : Nat, lost : BOOLEAN]

EventsTypeOK ==
    /\ written \in Nat /\ read \in 0..written /\ sent \in 0..read
    /\ sock \in [Socket -> SocketState]
    /\ \A k \in Socket :
          /\ sock[k].pc = "closed" => sock[k] = Closed
          /\ ~Live(k) => sock[k].queue = <<>> /\ sock[k].wire = <<>> /\ ~sock[k].lost

\* The lines on the way from the broadcaster to the page of socket c.
OnTheWay(c) == c.wire \o c.queue

\* Those of the n lines offered so far.
InOrder(c, n) ==
    LET s == OnTheWay(c)
    IN  /\ c.last <= n
        /\ \A i \in DOMAIN s : s[i] \in (c.last + 1)..n
        /\ \A i, j \in DOMAIN s : i < j => s[i] < s[j]
        /\ ~c.lost => Len(s) = n - c.last /\ \A i \in DOMAIN s : s[i] = c.last + i

\* A subscriber gets the lines in the order of the file, each once, from its
\* subscription on; what it has been shown and what is on the way to it are
\* together all that was offered, unless its queue overflowed.
EventsInOrder == \A k \in Socket : Live(k) => InOrder(sock[k], sent)
===============================================================================
