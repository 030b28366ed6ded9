------------------------------ MODULE Conversation ------------------------------
(***************************************************************************)
(* bot/handlers.py and bot/telegram_bot.py over JobManager: what a chat      *)
(* sends, and what it is told.                                              *)
(*                                                                         *)
(* python-telegram-bot hands the updates to the handlers one after another;   *)
(* the callbacks of the jobs (on_update) run between a handler's awaits. A    *)
(* message that cannot be sent is logged and forgotten (_safe_reply); once    *)
(* the application is shut down, before JobManager.shutdown, none can be.     *)
(* Wording and the parts of one answer are left out: the outcome of a job is   *)
(* its result or its error, with the card of a secondary source.              *)
(***************************************************************************)
EXTENDS JobProperties

CONSTANTS
  MaxMessages,   \* product messages sent in all
  MaxKeyboards,  \* language keyboards on the screen of a chat
  Caller,        \* the one handler at a time that may be inside cancel_chat_jobs
  NoProduct      \* absence of a request

ASSUME ConversationAssumption ==
  /\ Caller \in Callers
  /\ IsFiniteSet(Chats)
  /\ NoProduct \notin Products

VARIABLES
  pending,    \* _pending_queries: chat -> the product that waits for a language
  keyboards,  \* chat -> language keyboards that can still be tapped
  asked,      \* product messages handled
  taken,      \* queries that a tap consumed
  handler,    \* the update being handled: [step, chat]
  part,       \* job -> the next part of its outcome to be sent
  told        \* job -> parts of its outcome that reached the chat

conversationVars == <<pending, keyboards, asked, taken, handler, part, told>>
allVars == <<vars, conversationVars>>

Steps == {"idle", "prompting", "accepting", "cancelling", "discovering", "replying"}
Free == handler.step = "idle" /\ shutdown.phase = "up"
At(step, chat) == handler' = [step |-> step, chat |-> chat]
ToIdle == At("idle", handler.chat)
Reachable == shutdown.phase = "up"

ConversationInit ==
  /\ Init
  /\ pending = [c \in Chats |-> NoProduct] /\ keyboards = [c \in Chats |-> 0]
  /\ asked = 0 /\ taken = 0
  /\ handler \in {[step |-> "idle", chat |-> c] : c \in Chats}
  /\ part = [j \in Jobs |-> "none"] /\ told = [j \in Jobs |-> {}]

-----------------------------------------------------------------------------
(* Updates                                                                  *)

(* handle_product_query: a second message replaces a query not yet answered.    *)
AskProduct(c, p) ==
  /\ Free /\ asked < MaxMessages
  /\ asked' = asked + 1 /\ pending' = [pending EXCEPT ![c] = p] /\ At("prompting", c)
  /\ UNCHANGED <<vars, keyboards, taken, part, told>>

PromptSent ==
  /\ handler.step = "prompting"
  /\ \/ UNCHANGED keyboards
     \/ keyboards[handler.chat] < MaxKeyboards /\ keyboards' = [keyboards EXCEPT ![handler.chat] = @ + 1]
  /\ ToIdle
  /\ UNCHANGED <<vars, pending, asked, taken, part, told>>

(* Mutant: the query stays pending.                                           *)
StillPending(c) == pending
Popped(c) == [pending EXCEPT ![c] = NoProduct]

(* A tap on any keyboard of the chat, an old one too; without a query it does    *)
(* nothing. The request becomes a job, or joins the one that runs.               *)
TapLanguage(c) ==
  /\ Free /\ keyboards[c] > 0 /\ pending[c] # NoProduct
  /\ pending' = Popped(c) /\ taken' = taken + 1 /\ At("accepting", c)
  /\ \/ SubmitDuplicate(<<c, pending[c]>>)
     \/ \E j \in Jobs : Identity(j) = <<c, pending[c]>> /\ SubmitNew(j)
  /\ UNCHANGED <<keyboards, asked, part, told>>

(* The job is announced, then the keyboard goes, if Telegram lets it.            *)
KeyboardRemoved ==
  /\ handler.step = "accepting"
  /\ keyboards' \in {keyboards, [keyboards EXCEPT ![handler.chat] = @ - 1]}
  /\ ToIdle
  /\ UNCHANGED <<vars, pending, asked, taken, part, told>>

(* /cancel                                                                   *)
Cancel(c) ==
  /\ Free
  /\ IF chatActive[c] = {} THEN At("replying", c) /\ UNCHANGED vars
     ELSE At("cancelling", c) /\ CancelChatJobs(Caller, c)
  /\ UNCHANGED <<pending, keyboards, asked, taken, part, told>>

(* Mutant: the answer waits for the cancelled jobs to end.                      *)
JobsGone == caller[Caller] = Idle /\ chatActive[handler.chat] = {}
JobsFlagged == caller[Caller] = Idle

CancelAnswered ==
  /\ handler.step = "cancelling" /\ JobsFlagged
  /\ At("replying", handler.chat)
  /\ UNCHANGED <<vars, pending, keyboards, asked, taken, part, told>>

(* /discover waits in the handler for the search in its thread.                  *)
Discover(c) ==
  /\ Free /\ At("discovering", c)
  /\ UNCHANGED <<vars, pending, keyboards, asked, taken, part, told>>
DiscoverEnds ==
  /\ handler.step = "discovering" /\ At("replying", handler.chat)
  /\ UNCHANGED <<vars, pending, keyboards, asked, taken, part, told>>

(* /status, /export, the photos button, /help and what cannot be parsed: an       *)
(* answer that changes nothing.                                               *)
Answer(c) ==
  /\ Free /\ At("replying", c)
  /\ UNCHANGED <<vars, pending, keyboards, asked, taken, part, told>>

ReplySent ==
  /\ handler.step = "replying" /\ ToIdle
  /\ UNCHANGED <<vars, pending, keyboards, asked, taken, part, told>>

(* What the photos button of job j gives in chat c.                             *)
PhotosServed(c, j) == j \in jobs /\ ChatOf[j] = c /\ result[j] # "none"

-----------------------------------------------------------------------------
(* Jobs                                                                     *)

Quietly(j) ==
  /\ \/ TaskNeverEntered(j) \/ TaskQueues(j) \/ TaskAcquires(j) \/ TaskResumes(j) \/ TaskVerifies(j)
     \/ TaskDiscards(j) \/ TaskCancelled(j)
  /\ UNCHANGED conversationVars

(* A job that was not cancelled has something to say.                           *)
OutcomeBegins(j) ==
  /\ TaskFails(j) \/ TaskReports(j)
  /\ part' = [part EXCEPT ![j] = "outcome"]
  /\ UNCHANGED <<pending, keyboards, asked, taken, handler, told>>

(* on_update: the outcome, and photos when a completed product has some.          *)
Deliver(j) ==
  /\ pc[j] = "finalizing" /\ ~mustCancel[j] /\ part[j] \in {"outcome", "offer"}
  /\ part' \in {[part EXCEPT ![j] = p] :
                 p \in IF part[j] = "outcome" /\ state[j] = "completed" THEN {"offer", "done"} ELSE {"done"}}
  /\ told' \in {told} \cup (IF Reachable THEN {[told EXCEPT ![j] = @ \cup {part[j]}]} ELSE {})
  /\ UNCHANGED <<vars, pending, keyboards, asked, taken, handler>>

OutcomeEnds(j) == TaskEnds(j) /\ part[j] = "done" /\ UNCHANGED conversationVars

JobStep(j) == Quietly(j) \/ OutcomeBegins(j) \/ Deliver(j) \/ OutcomeEnds(j)

HandlerStep ==
  \/ PromptSent \/ KeyboardRemoved \/ CancelAnswered \/ DiscoverEnds \/ ReplySent
  \/ CancelResumes(Caller) /\ UNCHANGED conversationVars

(* The application stops once the update at hand is handled.                     *)
BotStops ==
  handler.step = "idle" /\ ShutdownBegins /\ UNCHANGED conversationVars
BotStopping == ShutdownStep /\ UNCHANGED conversationVars

ConversationNext ==
  \/ \E c \in Chats : \/ \E p \in Products : AskProduct(c, p)
                      \/ TapLanguage(c) \/ Cancel(c) \/ Discover(c) \/ Answer(c)
  \/ \E j \in Jobs : JobStep(j) \/ (ThreadEnds(j) /\ UNCHANGED conversationVars)
  \/ HandlerStep \/ BotStops \/ BotStopping
  \/ Stopped /\ UNCHANGED conversationVars

ConversationSpec == ConversationInit /\ [][ConversationNext]_allVars

(* The loop goes on, and what awaits Telegram or a search ends: HTTP calls time    *)
(* out, discovery has a wall-clock budget. Users owe nothing.                    *)
FairConversation ==
  /\ ConversationSpec
  /\ \A j \in Jobs : WF_allVars(JobStep(j))
  /\ WF_allVars(HandlerStep) /\ WF_allVars(BotStopping)

-----------------------------------------------------------------------------
(* However many keyboards are left on the screen, and whichever is tapped, a       *)
(* product message starts at most one verification (pop_pending_query).           *)
OneStartPerMessage ==
  taken + Cardinality({c \in Chats : pending[c] # NoProduct}) <= asked

(* The one thing a chat still hears of a job that it cancelled is that its          *)
(* verification broke: never a result, never photos.                             *)
CancelSilences ==
  \A j \in Jobs : cancelRequested[j] /\ told[j] # {} =>
    told[j] = {"outcome"} /\ Head(outcomes[j]) = "failed" /\ thread[j] = "raised"

(* A photos button in a chat works until as many later jobs of that chat as the     *)
(* history keeps have ended, or the process stops.                               *)
OfferHonoured ==
  \A j \in Jobs : "offer" \in told[j] /\ Reachable =>
    \/ PhotosServed(ChatOf[j], j)
    \/ ~Retained(j) /\ pc[j] = "done" /\ Len(history[ChatOf[j]]) = HistoryLimit

(* Every accepted request is answered by its outcome unless it is cancelled.       *)
OutcomeSent ==
  ThreadsEnd =>
    \A j \in Jobs : state[j] = "queued" ~> part[j] \in {"offer", "done"} \/ state[j] = "cancelled"

(* No update waits forever for the one before it, a /cancel least of all.          *)
UpdatesServed == handler.step # "idle" ~> handler.step = "idle"

(* The bot stops, even if no verification ever ends.                             *)
BotStopsInTime == shutdown.phase = "waiting" ~> shutdown.phase = "down"
=============================================================================
