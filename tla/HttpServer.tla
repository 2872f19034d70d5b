------------------------------ MODULE HttpServer ------------------------------
(***************************************************************************)
(* The server of api/http.cpp: one thread accepts connections and puts      *)
(* them into a queue, a pool of workers takes them out, under a mutex and a *)
(* condition variable; a worker reads the request, has it handled, replies  *)
(* and closes.  Reading has no time limit.                                  *)
(*                                                                         *)
(* A request is its head and its body; what it asks for is left to other    *)
(* modules.                                                                 *)
(***************************************************************************)
EXTENDS Naturals, Sequences, FiniteSets, SequencesExt

CONSTANTS
    Conns,      \* connections
    Workers,    \* threads of the pool
    Clients     \* the kinds of the clients behind Conns that are tried

(* What a client does: sends a whole request, one without a body (OPTIONS), *)
(* or one the reader or the handler throws on; leaves before the body;      *)
(* sends nothing, or the head alone, and stays.                             *)
Kinds == {"whole", "options", "throws", "leaves", "silent", "stalls"}
ASSUME ClientsAssumption == Clients \subseteq [Conns -> Kinds] /\ 0 \notin Conns

VARIABLES
    kind, sent, left,   \* the client: its kind, parts sent, whether it closed its end
    backlog,            \* connections the system holds for accept()
    main,               \* the accepting thread: what it does next, and its connection
    queue,
    at, serving,        \* where each worker is, and its connection
    replies,            \* to each connection, the parts of the request they are for
    up

hvars == <<kind, sent, left, backlog, main, queue, at, serving, replies, up>>
None == 0

Quiet ==
    /\ sent = [c \in Conns |-> 0] /\ left = [c \in Conns |-> FALSE]
    /\ backlog = <<>> /\ main = [next |-> "accept", conn |-> None] /\ queue = <<>>
    /\ at = [w \in Workers |-> "check"] /\ serving = [w \in Workers |-> None]
    /\ replies = [c \in Conns |-> <<>>]
HInit == kind \in Clients /\ up = TRUE /\ Quiet

-------------------------------------------------------------------------------
(* Clients. *)
Parts(c) == CASE kind[c] = "silent" -> 0 [] kind[c] \in {"whole", "throws"} -> 2 [] OTHER -> 1
Connected == ToSet(backlog) \cup ToSet(queue) \cup {main.conn} \cup {serving[w] : w \in Workers}
Connect(c) ==
    /\ up /\ c \notin Connected /\ replies[c] = <<>> /\ sent[c] = 0 /\ ~left[c]
    /\ backlog' = Append(backlog, c)
    /\ UNCHANGED <<kind, sent, left, main, queue, at, serving, replies, up>>
Send(c) ==
    /\ c \in Connected /\ ~left[c] /\ sent[c] < Parts(c)
    /\ sent' = [sent EXCEPT ![c] = @ + 1]
    /\ UNCHANGED <<kind, left, backlog, main, queue, at, serving, replies, up>>
Leave(c) ==
    /\ c \in Connected /\ kind[c] = "leaves" /\ ~left[c]
    /\ left' = [left EXCEPT ![c] = TRUE]
    /\ UNCHANGED <<kind, sent, backlog, main, queue, at, serving, replies, up>>

-------------------------------------------------------------------------------
(* The accepting thread pushes under the mutex and notifies after it.       *)
Accept ==
    /\ up /\ main.next = "accept" /\ backlog # <<>>
    /\ main' = [next |-> "push", conn |-> Head(backlog)] /\ backlog' = Tail(backlog)
    /\ UNCHANGED <<kind, sent, left, queue, at, serving, replies, up>>
Push ==
    /\ up /\ main.next = "push"
    /\ queue' = Append(queue, main.conn) /\ main' = [next |-> "notify", conn |-> None]
    /\ UNCHANGED <<kind, sent, left, backlog, at, serving, replies, up>>
Waiting == {w \in Workers : at[w] = "wait"}
Wake(w) == at' = [at EXCEPT ![w] = "check"]
NotifyOne ==
    /\ up /\ main.next = "notify"
    /\ IF Waiting = {} THEN at' = at ELSE \E w \in Waiting : Wake(w)
    /\ main' = [main EXCEPT !.next = "accept"]
    /\ UNCHANGED <<kind, sent, left, backlog, queue, serving, replies, up>>

(* A condition variable may wake a thread for nothing. *)
Spurious(w) ==
    /\ up /\ w \in Waiting /\ Wake(w)
    /\ UNCHANGED <<kind, sent, left, backlog, main, queue, serving, replies, up>>

-------------------------------------------------------------------------------
(* Mutant: the connection stays in the queue. *)
Rest_Stays(q) == q

Rest(q) == Tail(q)

(* cv.wait with its predicate: checks before it waits and after it wakes.   *)
Take(w) ==
    /\ up /\ at[w] = "check"
    /\ IF queue = <<>>
       THEN /\ at' = [at EXCEPT ![w] = "wait"]
            /\ UNCHANGED <<queue, serving>>
       ELSE /\ at' = [at EXCEPT ![w] = "head"]
            /\ serving' = [serving EXCEPT ![w] = Head(queue)]
            /\ queue' = Rest(queue)
    /\ UNCHANGED <<kind, sent, left, backlog, main, replies, up>>

(* Mutant: a worker that is done waits without looking at the queue. *)
AfterServing_Waits == "wait"

AfterServing == "check"
Close(w) ==
    /\ at' = [at EXCEPT ![w] = AfterServing]
    /\ serving' = [serving EXCEPT ![w] = None]
    /\ UNCHANGED <<kind, sent, left, backlog, main, queue, up>>

(* recv_request blocks until the head is there, gives up when the client    *)
(* left before it was, and throws on a length that is no number.            *)
ReadHead(w) ==
    LET c == serving[w] IN
    /\ up /\ at[w] = "head"
    /\ \/ /\ sent[c] >= 1 /\ kind[c] # "throws"
          /\ at' = [at EXCEPT ![w] = IF kind[c] = "options" THEN "reply" ELSE "body"]
          /\ UNCHANGED <<kind, sent, left, backlog, main, queue, serving, replies, up>>
       \/ /\ sent[c] = 0 /\ left[c]
          /\ Close(w) /\ UNCHANGED replies
       \/ /\ sent[c] >= 1 /\ kind[c] = "throws"
          /\ up' = FALSE
          /\ UNCHANGED <<kind, sent, left, backlog, main, queue, at, serving, replies>>

(* The rest of the body; one that is cut short is handled as it is.         *)
ReadBody(w) ==
    /\ up /\ at[w] = "body" /\ (sent[serving[w]] = 2 \/ left[serving[w]])
    /\ at' = [at EXCEPT ![w] = "reply"]
    /\ UNCHANGED <<kind, sent, left, backlog, main, queue, serving, replies, up>>

(* The handler, the response and close(). *)
Reply(w) ==
    /\ up /\ at[w] = "reply"
    /\ replies' = [replies EXCEPT ![serving[w]] = Append(@, sent[serving[w]])]
    /\ Close(w)

WorkerStep(w) == Take(w) \/ ReadHead(w) \/ ReadBody(w) \/ Reply(w)
AcceptStep == Accept \/ Push \/ NotifyOne
ClientStep(c) == Send(c) \/ Leave(c)
HNext ==
    \/ \E c \in Conns : Connect(c) \/ ClientStep(c)
    \/ AcceptStep
    \/ \E w \in Workers : WorkerStep(w) \/ Spurious(w)

(* The system runs every thread that can run, and a client that has begun   *)
(* goes on as its kind says.                                                *)
HFairness ==
    /\ WF_hvars(AcceptStep)
    /\ \A w \in Workers : WF_hvars(WorkerStep(w))
    /\ \A c \in Conns : WF_hvars(ClientStep(c))
HSpec == HInit /\ [][HNext]_hvars /\ HFairness

-------------------------------------------------------------------------------
(* A connection is in one place: with the system, the accepting thread, the *)
(* queue or one worker, or it was answered, once; no wake-up, wanted or not,*)
(* gives a connection to two workers or to none (http.cpp:219-241).         *)
Slots(c) ==
    {<<"backlog", i>> : i \in {i \in DOMAIN backlog : backlog[i] = c}}
    \cup {<<"main", i>> : i \in {i \in {1} : main.conn = c}}
    \cup {<<"queue", i>> : i \in {i \in DOMAIN queue : queue[i] = c}}
    \cup {<<"worker", w>> : w \in {w \in Workers : serving[w] = c}}
    \cup {<<"answered", i>> : i \in DOMAIN replies[c]}
Wants(c) == up /\ sent[c] > 0 /\ kind[c] \in {"whole", "options"}
InOnePlace ==
    \A c \in Conns :
        /\ \A p, q \in Slots(c) : p = q
        /\ Wants(c) => Slots(c) # {}

(* Everyone who sends a request is answered, in whatever order threads run, *)
(* as long as the connections that keep a worker in read() for ever are     *)
(* fewer than the workers and no request throws (http.cpp:132,170: nothing  *)
(* limits the time of a read, and nothing catches).                         *)
Keepers == {c \in Conns : kind[c] \in {"silent", "stalls"}}
Bearable == Cardinality(Keepers) < Cardinality(Workers) /\ \A c \in Conns : kind[c] # "throws"
EveryoneIsServed ==
    \A c \in Conns :
        (Bearable /\ c \in Connected /\ kind[c] \in {"whole", "options"}) ~> (replies[c] # <<>>)

===============================================================================
