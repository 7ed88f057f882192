-------------------------- MODULE DiscordInbound --------------------------
(***************************************************************************)
(* Messages from Discord to the foreman: the Gateway client, which keeps   *)
(* one logical session over many connections (discord/gateway.py), and the *)
(* router that consumes its queue (discord/router.py). Discord itself is   *)
(* external: it numbers what it dispatches in a session, replays what a    *)
(* RESUME has not seen, may forget a session, ask for a reconnect, lose a  *)
(* connection, or keep it open and fall silent.                            *)
(***************************************************************************)
EXTENDS Naturals, Sequences, SequencesExt

CONSTANTS
    MaxPosts,       \* messages people post
    ChannelOf,      \* of a message: where it is posted
    MaxMishaps,     \* bound on what goes wrong, at either end
    MaxIdentifies   \* _MAX_IDENTIFIES

Messages == 1..MaxPosts
NoPost == 0
NoSeq == MaxPosts + 1      \* self._seq is None: READY has number 0 here

\* A thread bound to a task, and a channel that a project may be bound to.
Channels == {"task", "chat"}

ASSUME PostsType == MaxPosts \in Nat
ASSUME ChannelsType == ChannelOf \in [Messages -> Channels]
ASSUME BoundsType == MaxMishaps \in Nat /\ MaxIdentifies \in Nat \ {0}

VARIABLES
    sent,       \* messages posted so far
    stream,     \* Discord: what the session has dispatched
    session,    \* Discord: "none", "fresh" until its READY is read, "known"
    attached,   \* Discord: the connection has identified or resumed
    conn,       \* "closed", "open", "silent"
    wire,       \* frames on their way to the client
    loop,       \* where run() and the read loop are
    sess,       \* self._session_id: "none", "live", or a session that is "gone"
    seq,        \* self._seq
    acked,      \* self._heartbeat_acked
    beat,       \* the heartbeat task runs
    healthy,    \* self._healthy
    identifies, \* self._identify_count
    current,    \* the message a dispatch is at
    bound,      \* the chat channel has a row in discord_channel_guilds
    cache,      \* _channel_wired_cache
    queue,      \* gateway_message_queue
    router,     \* the consumer: its place and its message
    state,      \* Task.state of the task a thread is bound to
    answer,     \* what became of a message
    mishaps

serverVars == <<sent, stream, session, attached>>
lineVars == <<conn, wire>>
sessionVars == <<sess, seq, healthy>>
beatVars == <<acked, beat>>
clientVars == <<loop, sessionVars, beatVars, identifies, current>>
wiredVars == <<bound, cache>>
routerVars == <<queue, router, state, answer>>
gatewayVars == <<serverVars, lineVars, clientVars, wiredVars, routerVars, mishaps>>

Ops == {"hello", "ready", "resumed", "event", "ack", "reconnect", "invalid", "retry"}
Frame(op) == [op |-> op, post |-> NoPost, s |-> 0]
Event(s) == [op |-> "event", post |-> stream[s], s |-> s]

\* "pending" stands for all the router leaves to the foreman, "parked" for
\* "awaiting-review" as well.
TaskStates == {"pending", "working", "parked", "done"}
Terminal == {"done"}
FollowupStates == {"parked", "done"}
Routed == {"task", "foreman", "swallowed"}

\* The domains of the variables; the read loop holds a message only while it
\* handles it, the router only while it routes it; a session the client may
\* resume is Discord's, at a place in its stream.
Frames == [op : Ops, post : Messages \cup {NoPost}, s : 0..MaxPosts]
Stages == {"idle", "resolve", "read", "redirect_task", "send_followup", "trigger"}

DiscordTypeOK ==
    /\ sent \in 0..MaxPosts /\ stream \in Seq(Messages)
    /\ session \in {"none", "fresh", "known"} /\ attached \in BOOLEAN
    /\ attached => session # "none" /\ conn = "open"
    /\ conn \in {"closed", "open", "silent"} /\ wire \in Seq(Frames)

ClientTypeOK ==
    /\ loop \in {"backoff", "hello", "resume", "identify", "cooling", "reading", "handling", "closing"}
    /\ sess \in {"none", "gone", "live"} /\ seq \in 0..NoSeq
    /\ sess = "live" => session = "known" /\ seq <= Len(stream)
    /\ acked \in BOOLEAN /\ healthy \in BOOLEAN
    /\ beat \in BOOLEAN /\ (beat => loop \notin {"backoff", "hello"})
    /\ identifies \in 0..MaxIdentifies
    /\ current \in Messages \cup {NoPost} /\ (current # NoPost <=> loop = "handling")

RouterTypeOK ==
    /\ bound \in BOOLEAN /\ cache \in {"none", "yes", "no"}
    /\ queue \in Seq(Messages) /\ router \in [at : Stages, post : Messages \cup {NoPost}]
    /\ (router.post = NoPost <=> router.at = "idle")
    /\ state \in TaskStates
    /\ answer \in [Messages -> Routed \cup {"none", "dropped", "ignored", "lost"}]

GatewayTypeOK == DiscordTypeOK /\ ClientTypeOK /\ RouterTypeOK /\ mishaps \in 0..MaxMishaps

Idle == [at |-> "idle", post |-> NoPost]

GatewayInit ==
    /\ sent = 0 /\ stream = <<>> /\ session = "none" /\ attached = FALSE
    /\ conn = "closed" /\ wire = <<>>
    /\ loop = "backoff" /\ sess = "none" /\ seq = NoSeq /\ healthy = FALSE
    /\ acked = TRUE /\ beat = FALSE /\ identifies = 0 /\ current = NoPost
    /\ bound = FALSE /\ cache = "none"
    /\ queue = <<>> /\ router = Idle /\ state = "pending"
    /\ answer = [n \in Messages |-> "none"] /\ mishaps = 0

Mishap == mishaps < MaxMishaps /\ mishaps' = mishaps + 1

-----------------------------------------------------------------------------
(* Discord (external), and people.                                         *)

\* An event is dispatched in the session there is; a connection that is attached
\* to it carries it, and a RESUME replays it.
Post ==
    /\ sent < MaxPosts /\ sent' = sent + 1
    /\ stream' = IF session = "none" THEN stream ELSE Append(stream, sent')
    /\ wire' = IF attached
               THEN Append(wire, [op |-> "event", post |-> sent', s |-> Len(stream')])
               ELSE wire
    /\ UNCHANGED <<session, attached, conn, clientVars, wiredVars, routerVars, mishaps>>

\* /join-channel binds the channel of the project.
Bind ==
    /\ ~bound /\ bound' = TRUE
    /\ UNCHANGED <<serverVars, lineVars, clientVars, cache, routerVars, mishaps>>

CacheExpires ==
    /\ cache # "none" /\ cache' = "none"
    /\ UNCHANGED <<serverVars, lineVars, clientVars, bound, routerVars, mishaps>>

Moves(from) == IF from = "working" THEN {"parked", "done"} ELSE {"working"}

TaskMoves ==
    /\ state' \in Moves(state)
    /\ UNCHANGED <<serverVars, lineVars, clientVars, wiredVars, queue, router, answer, mishaps>>

\* What was received before the end of a connection may still be read, or not.
Cut(end) ==
    /\ conn' = end /\ attached' = FALSE
    /\ wire' \in {wire, <<>>}

Lose ==
    /\ conn = "open" /\ Mishap /\ Cut("closed")
    /\ UNCHANGED <<sent, stream, session, clientVars, wiredVars, routerVars>>

\* The far end answers the protocol's pings and nothing else, at any time: it may
\* never have said HELLO.
FallSilent ==
    /\ conn = "open" /\ Mishap /\ Cut("silent")
    /\ UNCHANGED <<sent, stream, session, clientVars, wiredVars, routerVars>>

AskReconnect ==
    /\ attached /\ Mishap
    /\ wire' = Append(wire, Frame("reconnect"))
    /\ UNCHANGED <<serverVars, conn, clientVars, wiredVars, routerVars>>

Gone(s) == IF s = "live" THEN "gone" ELSE s

\* The session ends.
Invalidate ==
    /\ session # "none" /\ Mishap
    /\ session' = "none" /\ stream' = <<>> /\ attached' = FALSE
    /\ sess' = Gone(sess)
    /\ wire' = IF attached THEN Append(wire, Frame("invalid")) ELSE wire
    /\ UNCHANGED <<sent, conn, loop, seq, healthy, beatVars, identifies, current, wiredVars, routerVars>>

-----------------------------------------------------------------------------
(* The client: run(), _handle_connection and its sends.                    *)

Connect ==
    /\ loop = "backoff"
    /\ conn' = "open" /\ wire' = <<Frame("hello")>>
    /\ loop' = "hello" /\ healthy' = FALSE
    /\ UNCHANGED <<serverVars, sess, seq, beatVars, identifies, current, wiredVars, routerVars, mishaps>>

Arrives(op) == wire # <<>> /\ Head(wire).op = op /\ wire' = Tail(wire)

Resumable == sess # "none" /\ seq # NoSeq

Hello ==
    /\ loop = "hello" /\ Arrives("hello")
    /\ acked' = TRUE /\ beat' = TRUE
    /\ loop' = IF Resumable THEN "resume" ELSE "identify"
    /\ UNCHANGED <<serverVars, conn, sessionVars, identifies, current, wiredVars, routerVars, mishaps>>

\* A send raises on a connection that has ended, and goes nowhere on a silent one.
Unsent ==
    /\ conn # "open"
    /\ loop' = IF conn = "closed" THEN "closing" ELSE "reading"
    /\ UNCHANGED <<serverVars, wire, mishaps>>

\* Discord refuses a session it does not know, and may ask for a retry.
Resume ==
    /\ loop = "resume"
    /\ \/ Unsent
       \/ /\ conn = "open" /\ sess = "live"
          /\ wire' = wire \o [i \in 1..(Len(stream) - seq) |-> Event(seq + i)] \o <<Frame("resumed")>>
          /\ attached' = TRUE /\ loop' = "reading"
          /\ UNCHANGED <<sent, stream, session, mishaps>>
       \/ /\ conn = "open" /\ sess = "live" /\ Mishap
          /\ wire' = Append(wire, Frame("retry")) /\ loop' = "reading"
          /\ UNCHANGED serverVars
       \/ /\ conn = "open" /\ sess # "live"
          /\ wire' = Append(wire, Frame("invalid")) /\ loop' = "reading"
          /\ UNCHANGED <<serverVars, mishaps>>
    /\ UNCHANGED <<conn, sessionVars, beatVars, identifies, current, wiredVars, routerVars>>

\* Past the cap, _send_identify sleeps before it sends: in the read loop.
Cool ==
    /\ loop = "identify" /\ identifies >= MaxIdentifies
    /\ loop' = "cooling"
    /\ UNCHANGED <<serverVars, lineVars, sessionVars, beatVars, identifies, current, wiredVars, routerVars, mishaps>>

CoolEnds ==
    /\ loop = "cooling"
    /\ loop' = "identify" /\ identifies' = 0
    /\ UNCHANGED <<serverVars, lineVars, sessionVars, beatVars, current, wiredVars, routerVars, mishaps>>

\* A session of its own; Discord may refuse it.
Identify ==
    /\ loop = "identify" /\ identifies < MaxIdentifies
    /\ identifies' = identifies + 1
    /\ \/ Unsent /\ UNCHANGED sess
       \/ /\ conn = "open"
          /\ session' = "fresh" /\ stream' = <<>> /\ attached' = TRUE
          /\ sess' = Gone(sess)
          /\ wire' = Append(wire, Frame("ready")) /\ loop' = "reading"
          /\ UNCHANGED <<sent, mishaps>>
       \/ /\ conn = "open" /\ Mishap
          /\ wire' = Append(wire, Frame("invalid")) /\ loop' = "reading"
          /\ UNCHANGED <<serverVars, sess>>
    /\ UNCHANGED <<conn, seq, healthy, beatVars, current, wiredVars, routerVars>>

\* A mutant: a connection that ends cancels the dispatch that is under way.
NoticeCancels ==
    /\ loop \in {"hello", "reading", "handling"} /\ conn = "closed" /\ wire = <<>>
    /\ loop' = "closing" /\ current' = NoPost
    /\ UNCHANGED <<serverVars, lineVars, sessionVars, beatVars, identifies, wiredVars, routerVars, mishaps>>

\* The read loop ends when the connection has: run() stops the heartbeat and backs
\* off. A connection that stayed up for a while has earned new IDENTIFYs.
Notice ==
    /\ loop \in {"hello", "reading"} /\ conn = "closed" /\ wire = <<>>
    /\ loop' = "closing"
    /\ UNCHANGED <<serverVars, lineVars, sessionVars, beatVars, identifies, current, wiredVars, routerVars, mishaps>>

Close ==
    /\ loop = "closing"
    /\ loop' = "backoff" /\ beat' = FALSE
    /\ \/ UNCHANGED identifies
       \/ healthy /\ identifies' = 0
    /\ UNCHANGED <<serverVars, lineVars, sessionVars, acked, current, wiredVars, routerVars, mishaps>>

-----------------------------------------------------------------------------
(* _handle_frame: one frame at a time, handled before the next is read.    *)

Read(op) == loop = "reading" /\ Arrives(op)

ReadEvent ==
    /\ Read("event")
    /\ seq' = Head(wire).s /\ current' = Head(wire).post
    /\ loop' = "handling"
    /\ UNCHANGED <<serverVars, conn, sess, healthy, beatVars, identifies, wiredVars, routerVars, mishaps>>

ReadReady ==
    /\ Read("ready")
    /\ healthy' = TRUE /\ seq' = 0
    /\ sess' = IF session = "fresh" THEN "live" ELSE "gone"
    /\ session' = IF session = "fresh" THEN "known" ELSE session
    /\ UNCHANGED <<sent, stream, attached, conn, loop, beatVars, identifies, current, wiredVars, routerVars, mishaps>>

ReadResumed ==
    /\ Read("resumed") /\ healthy' = TRUE
    /\ UNCHANGED <<serverVars, conn, loop, sess, seq, beatVars, identifies, current, wiredVars, routerVars, mishaps>>

ReadAck ==
    /\ Read("ack") /\ acked' = TRUE
    /\ UNCHANGED <<serverVars, conn, loop, sessionVars, beat, identifies, current, wiredVars, routerVars, mishaps>>

\* ws.close() closes with code 1000: Discord may end the session for it.
ReadReconnect ==
    /\ Read("reconnect") /\ beat' = FALSE
    /\ conn' = "closed" /\ attached' = FALSE
    /\ \/ UNCHANGED <<stream, session, sess, mishaps>>
       \/ /\ Mishap /\ session' = "none" /\ stream' = <<>> /\ sess' = Gone(sess)
    /\ UNCHANGED <<sent, loop, seq, healthy, acked, identifies, current, wiredVars, routerVars>>

ReadInvalid ==
    /\ Read("invalid")
    /\ sess' = "none" /\ seq' = NoSeq /\ loop' = "identify"
    /\ UNCHANGED <<serverVars, conn, healthy, beatVars, identifies, current, wiredVars, routerVars, mishaps>>

ReadRetry ==
    /\ Read("retry")
    /\ loop' = IF sess # "none" THEN "resume" ELSE "identify"
    /\ UNCHANGED <<serverVars, conn, sessionVars, beatVars, identifies, current, wiredVars, routerVars, mishaps>>

\* _is_channel_wired: a failed lookup says no, and is cached like any answer; that
\* of a task's thread is not worth modelling.
WiredLookup(c) ==
    \/ c = "chat" /\ cache # "none" /\ UNCHANGED <<cache, mishaps>>
    \/ c = "chat" /\ cache = "none" /\ cache' = (IF bound THEN "yes" ELSE "no") /\ UNCHANGED mishaps
    \/ c = "chat" /\ cache = "none" /\ cache' = "no" /\ Mishap
    \/ c = "task" /\ UNCHANGED <<cache, mishaps>>

\* _handle_message_create: a mention of the bot is queued wherever it is, another
\* message if its channel is wired.
Handle ==
    /\ loop = "handling"
    /\ LET c == ChannelOf[current]
           wired == c = "task" \/ cache' = "yes" IN
       \/ UNCHANGED <<cache, answer, mishaps>> /\ queue' = Append(queue, current)
       \/ WiredLookup(c) /\ wired /\ queue' = Append(queue, current) /\ UNCHANGED answer
       \/ WiredLookup(c) /\ ~wired /\ answer' = [answer EXCEPT ![current] = "dropped"] /\ UNCHANGED queue
    /\ current' = NoPost /\ loop' = "reading"
    /\ UNCHANGED <<serverVars, lineVars, sessionVars, beatVars, identifies, bound, router, state>>

-----------------------------------------------------------------------------
(* _heartbeat_loop, which shares the connection with the read loop.        *)

Beat ==
    /\ beat /\ acked /\ acked' = FALSE
    /\ beat' = (conn # "closed")
    /\ wire' = IF conn = "open" THEN Append(wire, Frame("ack")) ELSE wire
    /\ UNCHANGED <<serverVars, conn, loop, sessionVars, identifies, current, wiredVars, routerVars, mishaps>>

\* A mutant: a heartbeat is sent whether or not the last one was acknowledged.
UnackedGoesOn ==
    /\ beat /\ ~acked
    /\ UNCHANGED <<serverVars, lineVars, clientVars, wiredVars, routerVars>>

\* Close with 4000. That an acknowledgement waits unread for a whole interval
\* is a fault, except in a cool-down, which is longer than many intervals.
Unacked ==
    /\ beat /\ ~acked /\ beat' = FALSE
    /\ Cut("closed")
    /\ UNCHANGED <<sent, stream, session, loop, sessionVars, acked, identifies, current, wiredVars, routerVars>>

Timely == (conn # "open" \/ loop = "cooling") /\ UNCHANGED mishaps
HeartbeatCloses == Unacked /\ (Timely \/ Mishap)

-----------------------------------------------------------------------------
(* The router: _consume_forever, one message after the other.              *)

At(place) == router.at = place
Goes(place) == router' = [router EXCEPT !.at = place]
Done(what) == router' = Idle /\ answer' = [answer EXCEPT ![router.post] = what]
RouterOnly == UNCHANGED <<serverVars, lineVars, clientVars, wiredVars>>

Take ==
    /\ At("idle") /\ queue # <<>>
    /\ router' = [at |-> "resolve", post |-> Head(queue)] /\ queue' = Tail(queue)
    /\ RouterOnly /\ UNCHANGED <<state, answer, mishaps>>

\* resolve_session and the dispatch: by what the channel is bound to; without a
\* binding, by the projects of a mention's author. A message that is empty, whose
\* author is not authorized or whose binding is not found is ignored.
Route ==
    /\ At("resolve")
    /\ LET c == ChannelOf[router.post] IN
       \/ c = "task" /\ Goes("read") /\ UNCHANGED answer
       \/ c = "chat" /\ Goes("trigger") /\ UNCHANGED answer
       \/ Done("ignored")
    /\ RouterOnly /\ UNCHANGED <<queue, state, mishaps>>

\* _auto_route_task_reply: the state decides on the tool, and is read again by it.
ChooseTool ==
    /\ At("read")
    /\ \/ state = "working" /\ Goes("redirect_task") /\ UNCHANGED mishaps
       \/ state \in FollowupStates /\ Goes("send_followup") /\ UNCHANGED mishaps
       \/ state \notin FollowupStates \cup {"working"} /\ Goes("trigger") /\ UNCHANGED mishaps
       \/ Mishap /\ Goes("trigger")
    /\ RouterOnly /\ UNCHANGED <<queue, state, answer>>

\* redirect_task refuses a task that has ended, with a result that is no error.
Redirect ==
    /\ At("redirect_task")
    /\ \/ state \in Terminal /\ Done("swallowed") /\ UNCHANGED <<state, mishaps>>
       \/ state \notin Terminal /\ Done("task") /\ state' = "working" /\ UNCHANGED mishaps
       \/ Mishap /\ Goes("trigger") /\ UNCHANGED <<state, answer>>
    /\ RouterOnly /\ UNCHANGED queue

\* send_followup dispatches or queues; without a worker or a branch it is an error.
SendFollowup ==
    /\ At("send_followup")
    /\ \/ Done("task") /\ state' \in {state, "working"}
       \/ Goes("trigger") /\ UNCHANGED <<state, answer>>
    /\ RouterOnly /\ UNCHANGED <<queue, mishaps>>

Trigger ==
    /\ At("trigger") /\ Done("foreman")
    /\ RouterOnly /\ UNCHANGED <<queue, state, mishaps>>

Router == Take \/ Route \/ ChooseTool \/ Redirect \/ SendFollowup \/ Trigger

Held == {n \in Messages : n = current \/ n = router.post \/ n \in Range(queue)}

\* A restart of the backend loses the queue and the client's session.
GatewayRestart ==
    /\ Mishap
    /\ conn' = "closed" /\ wire' = <<>> /\ attached' = FALSE
    /\ loop' = "backoff" /\ sess' = "none" /\ seq' = NoSeq /\ healthy' = FALSE
    /\ acked' = TRUE /\ beat' = FALSE /\ identifies' = 0 /\ current' = NoPost
    /\ cache' = "none"
    /\ queue' = <<>> /\ router' = Idle
    /\ answer' = [n \in Messages |-> IF n \in Held THEN "lost" ELSE answer[n]]
    /\ UNCHANGED <<sent, stream, session, bound, state>>

-----------------------------------------------------------------------------
Discord == Post \/ Bind \/ CacheExpires \/ TaskMoves \/ Lose \/ FallSilent \/ AskReconnect \/ Invalidate

Client ==
    \/ Connect \/ Hello \/ Resume \/ Cool \/ CoolEnds \/ Identify \/ Notice \/ Close
    \/ ReadEvent \/ ReadReady \/ ReadResumed \/ ReadAck \/ ReadReconnect \/ ReadInvalid
    \/ ReadRetry \/ Handle

GatewayNext == Discord \/ Client \/ Beat \/ HeartbeatCloses \/ Router \/ GatewayRestart

GatewaySpec == GatewayInit /\ [][GatewayNext]_gatewayVars

\* One loop, one task and one consumer, each of which goes on while it can.
GatewayFairness ==
    /\ WF_gatewayVars(Client)
    /\ WF_gatewayVars(Beat \/ (Unacked /\ Timely))
    /\ WF_gatewayVars(Router)

GatewayFairSpec == GatewaySpec /\ GatewayFairness

-----------------------------------------------------------------------------
\* From Discord to the foreman a message keeps its place and is taken once, over
\* every reconnect, replay and retry: what is on its way is in the order in which
\* it was posted, and newer than everything that was routed.
Path == <<router.post>> \o queue \o <<current>>
OnPath(i) == i \in DOMAIN Path /\ Path[i] # NoPost
InOrderOnce ==
    /\ \A i, j \in DOMAIN Path : OnPath(i) /\ OnPath(j) /\ i < j => Path[i] < Path[j]
    /\ \A i \in DOMAIN Path, n \in Messages :
           OnPath(i) /\ answer[n] \in Routed => n < Path[i]

\* A session the client would resume has no gap: what its sequence number says
\* was received was handed on, is held, or was lost in a restart.
NoGap ==
    sess = "live" => \A i \in 1..seq : stream[i] \in Held \/ answer[stream[i]] # "none"

\* What Discord dispatches in a session is taken to the router and answered at
\* most once, in the order of its messages, and none is skipped: each is held,
\* forwarded, handed to a task, dropped, ignored or swallowed, or a restart of the
\* backend lost it.
ExactlyOnceInOrder == InOrderOnce /\ NoGap

\* The client waits for a HELLO that does not come: ws.recv() has no time limit,
\* and the heartbeat that would notice starts only after it.
Unwelcomed == loop = "hello" /\ conn = "silent" /\ wire = <<>>

\* Every event of a session is answered in some way (also by being dropped, ignored,
\* swallowed or lost in a restart), unless the session ends or the client waits for
\* a HELLO for ever: a connection that dies after its HELLO is noticed, and the
\* router neither stops nor waits forever.
EventAnswered ==
    \A n \in Messages :
        n \in Range(stream) ~> answer[n] # "none" \/ n \notin Range(stream) \/ []Unwelcomed

=============================================================================
