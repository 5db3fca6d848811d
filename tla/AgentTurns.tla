----------------------------- MODULE AgentTurns -----------------------------
(***************************************************************************)
(* Turns of vos-agent: runSessionTurn loads a thread of messages, starts   *)
(* the MCP servers, lets runAgent talk to the model and run the tools it   *)
(* asks for, saves the thread and closes the servers.  Several turns may   *)
(* be under way, also on one thread: the HTTP server starts one for every  *)
(* request, and nothing serialises them with each other, with `threads     *)
(* archive` or with `threads fork`.                                        *)
(*                                                                         *)
(* What happens between two awaits of a turn is one action.  A message is  *)
(* its role, the number of tool calls of an assistant message, and whether *)
(* the content of a tool message answers the call that it stands for.      *)
(***************************************************************************)
EXTENDS Naturals, Sequences, SequencesExt, FiniteSetsExt

CONSTANTS
  Threads,       \* thread ids
  Stored,        \* Stored[t]: the file that an earlier session left of t, or NoThread
  Turns,         \* the turns that may be started
  Servers,       \* Servers[u]: the MCP servers of turn u, in the order they start in
  Tools,         \* the tools the model is told of; a server stands for a tool of it
  Completion,    \* the tool that a turn may be required to call
  Protect,       \* protectLastMessages
  Required,      \* the turns that must end with an accepted Completion
  MaxIterations, \* MaxIterations[u]: the bound on round-trips, 50 by default
  Replies,       \* Replies[u]: the lists of calls that the model may ask turn u for
  NoThread, NoRequest

ASSUME ProtectAssumption == Protect \in Nat \ {0}
ASSUME IterationsAssumption == MaxIterations \in [Turns -> Nat \ {0}]
ASSUME RepliesAssumption ==
  \A u \in Turns : Replies[u] \subseteq Seq(Tools) /\ <<>> \notin Replies[u]

\* Every call has its answer right after the message, and every answer its call.
CallsAreAnswered(m) ==
  \A i \in 1..Len(m) :
    m[i].role = "assistant" =>
      /\ i + m[i].calls <= Len(m)
      /\ \A j \in 1..m[i].calls : m[i + j].role = "tool"

ResultsAreCalledFor(m) ==
  \A i \in 1..Len(m) :
    m[i].role = "tool" =>
      /\ m[i].own
      /\ \E k \in 1..(i - 1) : m[k].role = "assistant" /\ k + m[k].calls >= i

WellFormed(m) == CallsAreAnswered(m) /\ ResultsAreCalledFor(m)

\* The files that earlier sessions left: well formed, and by none of the turns.
Messages == [role : {"user", "assistant", "tool"}, calls : Nat, own : BOOLEAN]
Files == [turns : SUBSET Turns, archived : BOOLEAN, messages : Seq(Messages)]

ASSUME StoredAssumption ==
  /\ Stored \in [Threads -> Files \cup {NoThread}]
  /\ \A t \in Threads : Stored[t] # NoThread =>
       Stored[t].turns = {} /\ WellFormed(Stored[t].messages)

VARIABLES
  threads,     \* threads[t]: the file of thread t, or NoThread
  place,       \* place[u]: where turn u is
  thread,      \* thread[u]: the id of its thread
  loaded,      \* loaded[u]: the thread as it was loaded
  messages,    \* messages[u]: the transcript in memory
  iteration,   \* iteration[u]: the round-trip of the loop
  completion,  \* completion[u]: what became of the latest Completion
  todo,        \* todo[u]: the calls of the latest message not yet executed
  aborted,     \* the turns whose AbortSignal has fired
  client,      \* client[u][s]: the McpStdioClient of turn u for server s
  asked        \* asked[u]: the entry in the table of pending requests

loopVars == <<place, messages, iteration, completion, todo>>
turnVars == <<thread, loaded>>
clientVars == <<client, asked>>
vars == <<threads, loopVars, turnVars, clientVars, aborted>>

User == [role |-> "user", calls |-> 0, own |-> TRUE]
Assistant(n) == [role |-> "assistant", calls |-> n, own |-> TRUE]
ToolResult(own) == [role |-> "tool", calls |-> 0, own |-> own]

(* `working` holds the requests the server has not answered yet, also      *)
(* those that are no longer pending.                                       *)
NothingLoaded == [turns |-> {}, archived |-> FALSE]
NoClient == [process |-> "none", close |-> "open", nextId |-> 1, working |-> {}]

Init ==
  /\ threads = Stored
  /\ place = [u \in Turns |-> "idle"]
  /\ thread = [u \in Turns |-> NoThread]
  /\ loaded = [u \in Turns |-> NothingLoaded]
  /\ messages = [u \in Turns |-> <<>>]
  /\ iteration = [u \in Turns |-> 1]
  /\ completion = [u \in Turns |-> "none"]
  /\ todo = [u \in Turns |-> <<>>]
  /\ aborted = {}
  /\ client = [u \in Turns |-> [s \in ToSet(Servers[u]) |-> NoClient]]
  /\ asked = [u \in Turns |-> NoRequest]

-----------------------------------------------------------------------------
(* Compaction (compactHistoryIfNeeded).                                    *)

\* Slip: the last Protect messages, whatever they are.
ProtectedFrom_Cut(m) == IF Len(m) > Protect THEN Len(m) - Protect ELSE 0

(* How many messages are summarised: all but the last Protect, and fewer   *)
(* when the first one kept would be the result of a tool.                  *)
ProtectedFrom(m) ==
  Max({0} \cup {i \in 1..(Len(m) - 1) : i <= Len(m) - Protect /\ m[i + 1].role # "tool"})

(* The summary goes in front of the first message kept, if it is a user's. *)
Compact(m) ==
  LET older == ProtectedFrom(m)
      recent == SubSeq(m, older + 1, Len(m))
  IN IF older = 0 THEN m
     ELSE IF Head(recent).role = "user" THEN recent ELSE <<User>> \o recent

-----------------------------------------------------------------------------
(* The ends of a turn.  Its variables go back to their initial values.     *)

Ends(u) ==
  /\ place' = [place EXCEPT ![u] = "closing"]
  /\ messages' = [messages EXCEPT ![u] = <<>>]
  /\ todo' = [todo EXCEPT ![u] = <<>>]
  /\ iteration' = [iteration EXCEPT ![u] = 1]
  /\ completion' = [completion EXCEPT ![u] = "none"]

\* An exception: nothing is saved.
GivesUp(u) == Ends(u) /\ UNCHANGED threads

\* store.save writes the whole thread that was loaded, with the new transcript.
Saves(u, m) ==
  /\ threads' = [threads EXCEPT ![thread[u]] =
       [turns |-> loaded[u].turns \cup {u}, messages |-> m, archived |-> loaded[u].archived]]
  /\ Ends(u)

\* The next round-trip, unless that was the last one.
NextRound(u, m, c) ==
  \/ /\ iteration[u] = MaxIterations[u]
     /\ GivesUp(u)
  \/ /\ iteration[u] < MaxIterations[u]
     /\ iteration' = [iteration EXCEPT ![u] = @ + 1]
     /\ messages' = [messages EXCEPT ![u] = m]
     /\ completion' = [completion EXCEPT ![u] = c]
     /\ todo' = [todo EXCEPT ![u] = <<>>]
     /\ place' = [place EXCEPT ![u] = "asking"]
     /\ UNCHANGED threads

-----------------------------------------------------------------------------
(* Threads (ThreadStore, and the start of runSessionTurn).                 *)

Exists(t) == threads[t] # NoThread
Fresh(t) == ~Exists(t) /\ \A u \in Turns : thread[u] # t

Opens(u, t, l, m) ==
  /\ place[u] = "idle"
  /\ place' = [place EXCEPT ![u] = "opening"]
  /\ thread' = [thread EXCEPT ![u] = t]
  /\ loaded' = [loaded EXCEPT ![u] = l]
  /\ messages' = [messages EXCEPT ![u] = m]
  /\ UNCHANGED <<threads, iteration, completion, todo, clientVars, aborted>>

\* Slip: archived threads are only hidden from the list.
Continue_Archived(u, t) ==
  /\ Exists(t)
  /\ Opens(u, t, [turns |-> threads[t].turns, archived |-> threads[t].archived],
           threads[t].messages)

\* A turn on a stored thread, which must not be archived.
Continue(u, t) ==
  /\ Exists(t)
  /\ ~threads[t].archived
  /\ Opens(u, t, [turns |-> threads[t].turns, archived |-> FALSE], threads[t].messages)

\* A turn on a new thread, which gets its file when the turn is saved.
Create(u, t) ==
  /\ Fresh(t)
  /\ Opens(u, t, NothingLoaded, <<>>)

Archive(t) ==
  /\ Exists(t)
  /\ ~threads[t].archived
  /\ threads' = [threads EXCEPT ![t].archived = TRUE]
  /\ UNCHANGED <<loopVars, turnVars, clientVars, aborted>>

Fork(t, n) ==
  /\ Exists(t)
  /\ Fresh(n)
  /\ threads' = [threads EXCEPT ![n] = [threads[t] EXCEPT !.archived = FALSE]]
  /\ UNCHANGED <<loopVars, turnVars, clientVars, aborted>>

-----------------------------------------------------------------------------
(* MCP servers (McpStdioClient, createMcpToolProvider).                    *)

\* request: c is the turn's clients, process s of which is to be asked.
Asks(u, c, s, kind) ==
  /\ asked' = [asked EXCEPT ![u] = [server |-> s, id |-> c[s].nextId, kind |-> kind]]
  /\ client' = [client EXCEPT ![u] = [c EXCEPT
       ![s].nextId = @ + 1,
       ![s].working = IF c[s].process = "up" THEN @ \cup {c[s].nextId} ELSE @]]

Forgets(u, c) ==
  /\ asked' = [asked EXCEPT ![u] = NoRequest]
  /\ client' = [client EXCEPT ![u] = c]

Unopened(u) == SelectSeq(Servers[u], LAMBDA s : client[u][s].process = "none")

\* The process of the next server is spawned and asked to initialize.
OpenServer(u) ==
  /\ place[u] = "opening" /\ asked[u] = NoRequest
  /\ Unopened(u) # <<>>
  /\ LET s == Head(Unopened(u))
     IN Asks(u, [client[u] EXCEPT ![s].process = "up"], s, "initialize")
  /\ UNCHANGED <<threads, loopVars, turnVars, aborted>>

\* The result of a tool, unless the signal fired while it ran.  After the last
\* call of a message the turn is done, if it has called Completion.
ToolReturns(u, own, c) ==
  LET m == Append(messages[u], ToolResult(own))
  IN \/ /\ u \in aborted
        /\ GivesUp(u)
     \/ /\ u \notin aborted
        /\ Tail(todo[u]) # <<>>
        /\ messages' = [messages EXCEPT ![u] = m]
        /\ todo' = [todo EXCEPT ![u] = Tail(@)]
        /\ completion' = [completion EXCEPT ![u] = c]
        /\ UNCHANGED <<threads, place, iteration>>
     \/ /\ u \notin aborted
        /\ Tail(todo[u]) = <<>>
        /\ IF c = "accepted" THEN Saves(u, m) ELSE NextRound(u, m, c)

\* The promise of the pending request is settled.  An error ends a turn that is
\* opening its servers; to the model it is a result like any other.
Settles(u, c, ok, own) ==
  \/ /\ asked[u].kind = "initialize" /\ ok
     /\ Asks(u, c, asked[u].server, "list")
     /\ UNCHANGED <<threads, loopVars>>
  \/ /\ asked[u].kind = "list" /\ ok
     /\ Forgets(u, c)
     /\ UNCHANGED <<threads, loopVars>>
  \/ /\ asked[u].kind = "list" \/ (asked[u].kind = "initialize" /\ ~ok)
     /\ Forgets(u, c)
     /\ GivesUp(u)
  \/ /\ asked[u].kind = "call"
     /\ Forgets(u, c)
     /\ ToolReturns(u, own, completion[u])

Waits(u, s) == asked[u] # NoRequest /\ asked[u].server = s
Up(u, s) == client[u][s].process = "up"

\* Slip: an answer is taken for the answer to whatever is pending.
Pending_Any(u, s, id) == Waits(u, s)
Pending(u, s, id) == Waits(u, s) /\ asked[u].id = id

\* A response, also one that nobody waits for any more.
ServerAnswers(u, s, id) ==
  /\ Up(u, s)
  /\ id \in client[u][s].working
  /\ LET c == [client[u] EXCEPT ![s].working = @ \ {id}]
     IN IF Pending(u, s, id)
        THEN \E ok \in BOOLEAN : Settles(u, c, ok, asked[u].id = id)
        ELSE /\ client' = [client EXCEPT ![u] = c]
             /\ UNCHANGED <<threads, loopVars, asked>>
  /\ UNCHANGED <<turnVars, aborted>>

\* A line that is no JSON rejects what is pending and leaves the process alone.
InvalidJson(u, s) ==
  /\ Up(u, s) /\ Waits(u, s)
  /\ Settles(u, client[u], FALSE, TRUE)
  /\ UNCHANGED <<turnVars, aborted>>

RequestTimesOut(u) ==
  /\ asked[u] # NoRequest
  /\ Settles(u, client[u], FALSE, TRUE)
  /\ UNCHANGED <<turnVars, aborted>>

\* Of its own accord, or because its standard input or a signal told it to.
ServerExits(u, s) ==
  /\ Up(u, s)
  /\ LET c == [client[u] EXCEPT ![s].process = "gone", ![s].working = {}]
     IN IF Waits(u, s)
        THEN Settles(u, c, FALSE, TRUE)
        ELSE /\ client' = [client EXCEPT ![u] = c]
             /\ UNCHANGED <<threads, loopVars, asked>>
  /\ UNCHANGED <<turnVars, aborted>>

-----------------------------------------------------------------------------
(* The loop (runAgent).                                                    *)

\* All servers are open: the prompt goes after the history, which may have
\* grown so long that it is compacted.
StartAgent(u) ==
  /\ place[u] = "opening" /\ asked[u] = NoRequest
  /\ Unopened(u) = <<>>
  /\ \/ /\ u \in aborted
        /\ GivesUp(u)
     \/ /\ u \notin aborted
        /\ \E history \in {messages[u], Compact(messages[u])} :
             messages' = [messages EXCEPT ![u] = Append(history, User)]
        /\ place' = [place EXCEPT ![u] = "asking"]
        /\ UNCHANGED <<threads, iteration, completion, todo>>
  /\ UNCHANGED <<turnVars, clientVars, aborted>>

\* A round-trip: the usage of the one before may call for a compaction, and a
\* rejected Completion for a message that asks for a repair.
Ask(u) ==
  /\ place[u] = "asking"
  /\ \/ /\ u \in aborted
        /\ GivesUp(u)
     \/ /\ u \notin aborted
        /\ \E m \in {messages[u]} \cup (IF iteration[u] > 1 THEN {Compact(messages[u])} ELSE {}) :
             messages' = [messages EXCEPT ![u] =
               IF completion[u] = "rejected" THEN Append(m, User) ELSE m]
        /\ completion' = [completion EXCEPT ![u] = "none"]
        /\ place' = [place EXCEPT ![u] = "thinking"]
        /\ UNCHANGED <<threads, iteration, todo>>
  /\ UNCHANGED <<turnVars, clientVars, aborted>>

\* The provider fails or takes too long, or the signal cancels the request.
NoReply(u) ==
  /\ place[u] = "thinking"
  /\ GivesUp(u)
  /\ UNCHANGED <<turnVars, clientVars, aborted>>

\* A reply without calls is the last one, but for a turn that has to call
\* Completion, which is told to go on.
FinalReply(u) ==
  /\ place[u] = "thinking"
  /\ u \notin aborted
  /\ LET m == Append(messages[u], Assistant(0))
     IN IF u \in Required THEN NextRound(u, Append(m, User), completion[u]) ELSE Saves(u, m)
  /\ UNCHANGED <<turnVars, clientVars, aborted>>

\* A reply with calls, which come too late in the last round-trip unless one of
\* them can be Completion.
CallingReply(u, calls) ==
  /\ place[u] = "thinking"
  /\ u \notin aborted
  /\ \/ /\ iteration[u] = MaxIterations[u] /\ u \notin Required
        /\ GivesUp(u)
     \/ /\ iteration[u] < MaxIterations[u] \/ u \in Required
        /\ messages' = [messages EXCEPT ![u] = Append(@, Assistant(Len(calls)))]
        /\ todo' = [todo EXCEPT ![u] = calls]
        /\ place' = [place EXCEPT ![u] = "calling"]
        /\ UNCHANGED <<threads, iteration, completion>>
  /\ UNCHANGED <<turnVars, clientVars, aborted>>

\* The next call of the message.  Once accepted, Completion stays accepted.
Execute(u) ==
  /\ place[u] = "calling" /\ asked[u] = NoRequest
  /\ LET tool == Head(todo[u])
     IN \/ /\ tool \notin ToSet(Servers[u]) \/ u \in aborted
           /\ \E c \in IF tool = Completion /\ u \in Required /\ completion[u] # "accepted"
                      THEN {"accepted", "rejected"} ELSE {completion[u]} :
                ToolReturns(u, TRUE, c)
           /\ UNCHANGED clientVars
        \/ /\ tool \in ToSet(Servers[u]) /\ u \notin aborted
           /\ Asks(u, client[u], tool, "call")
           /\ UNCHANGED <<threads, loopVars>>
  /\ UNCHANGED <<turnVars, aborted>>

Abort(u) ==
  /\ place[u] \in {"opening", "asking", "thinking", "calling"}
  /\ aborted' = aborted \cup {u}
  /\ UNCHANGED <<threads, loopVars, turnVars, clientVars>>

-----------------------------------------------------------------------------
(* The end (closeServers): one server after the other is given the end of  *)
(* its input, SIGTERM and SIGKILL, with a bounded wait after each.         *)

ToClose(u) ==
  SelectSeq(Servers[u], LAMBDA s : client[u][s].process # "none" /\ client[u][s].close # "done")

\* Slip: a process that outlives SIGTERM is left behind.
CloseSteps_Leaves == [open |-> "eof", eof |-> "done"]

\* What a wait without success leads to.
CloseSteps == [open |-> "eof", eof |-> "term", term |-> "kill"]

CloseServer(u) ==
  /\ place[u] = "closing"
  /\ ToClose(u) # <<>>
  /\ LET s == Head(ToClose(u))
         next == IF Up(u, s) THEN CloseSteps[client[u][s].close] ELSE "done"
     IN client' = [client EXCEPT
          ![u][s].close = IF next = "kill" THEN "done" ELSE next,
          ![u][s].process = IF next = "kill" THEN "gone" ELSE @,
          ![u][s].working = IF next \in {"kill", "done"} THEN {} ELSE @]
  /\ UNCHANGED <<threads, loopVars, turnVars, asked, aborted>>

Finish(u) ==
  /\ place[u] = "closing"
  /\ ToClose(u) = <<>>
  /\ place' = [place EXCEPT ![u] = "over"]
  /\ client' = [client EXCEPT ![u] = [s \in DOMAIN @ |-> [NoClient EXCEPT !.process = client[u][s].process]]]
  /\ loaded' = [loaded EXCEPT ![u] = NothingLoaded]
  /\ aborted' = aborted \ {u}
  /\ UNCHANGED <<threads, messages, iteration, completion, todo, thread, asked>>

-----------------------------------------------------------------------------
(* Every wait of a turn is bounded, by a timer if by nothing else.         *)
TurnStep(u) ==
  \/ OpenServer(u) \/ StartAgent(u) \/ Ask(u)
  \/ NoReply(u) \/ FinalReply(u) \/ (\E calls \in Replies[u] : CallingReply(u, calls))
  \/ Execute(u) \/ RequestTimesOut(u)
  \/ CloseServer(u) \/ Finish(u)

ServerStep(u) ==
  \E s \in ToSet(Servers[u]) :
    \/ \E id \in client[u][s].working : ServerAnswers(u, s, id)
    \/ InvalidJson(u, s)
    \/ ServerExits(u, s)

Next ==
  \/ \E u \in Turns, t \in Threads : Continue(u, t) \/ Create(u, t)
  \/ \E u \in Turns : TurnStep(u) \/ ServerStep(u) \/ Abort(u)
  \/ \E t \in Threads : Archive(t)
  \/ \E t, n \in Threads : Fork(t, n)

Spec == Init /\ [][Next]_vars /\ \A u \in Turns : WF_vars(TurnStep(u))

-----------------------------------------------------------------------------
(* Properties.                                                             *)

(* The transcripts that are stored, and those that are sent to the model,  *)
(* have every assistant message followed by the results of its calls, and  *)
(* no others, each the answer to its own call: providers refuse any other. *)
(* That is so although history is cut by compaction, servers time out and  *)
(* answer late, exit and send garbage, and turns give up anywhere.         *)
TranscriptsWellFormed ==
  /\ \A t \in Threads : Exists(t) => WellFormed(threads[t].messages)
  /\ \A u \in Turns : place[u] = "thinking" => WellFormed(messages[u])

(* What is written over a thread: only a turn that loaded it before it was *)
(* archived changes an archived thread (and unarchives it), and a turn is  *)
(* lost from a thread only to one that had loaded it before.               *)
ThreadsKeepTurns ==
  [][\A t \in Threads : Exists(t) /\ threads'[t] # threads[t] =>
       \/ threads'[t] = [threads[t] EXCEPT !.archived = TRUE]
       \/ \E u \in Turns :
            /\ thread[u] = t /\ u \in threads'[t].turns \ threads[t].turns
            /\ threads[t].archived => ~loaded[u].archived
            /\ threads[t].turns \cap loaded[u].turns \subseteq threads'[t].turns]_vars

(* A turn that has begun ends, whatever the model, its tools and the MCP   *)
(* servers do, and leaves no server process behind.                        *)
EveryTurnEnds ==
  \A u \in Turns :
    place[u] # "idle" ~>
      (place[u] = "over" /\ \A s \in ToSet(Servers[u]) : ~Up(u, s))
=============================================================================
