----------------------------- MODULE Interview -----------------------------
(***************************************************************************)
(* The private session and its interview: the assignment of one prompt per *)
(* question family, the answers that advance the stage, START AGAIN, and   *)
(* the repeat order that copies a profile or begins a fresh one.           *)
(*                                                                         *)
(* The tabs of one browser share its cookie jar.  A tab has one request on *)
(* the way at a time (its buttons are disabled meanwhile); each SQL        *)
(* statement is one step, and a request may die or its response be lost    *)
(* after any of them.  Stages are numbers: k is QUESTION_k; Profile stands *)
(* for PROFILE_COMPLETE to COMMITMENT_READY, which the Checkout module     *)
(* refines; Paying is CHECKOUT_STARTED.                                    *)
(***************************************************************************)
EXTENDS Naturals, Sequences, FiniteSets

CONSTANTS
  Tabs,            \* tabs of one browser
  QuestionCount,   \* seven in the code
  Prompts,         \* prompts of a family; families are numbered as questions
  MaxRetired,      \* bound on the prompts the owner retires
  MaxExperiences,  \* bound on experiences
  Expirable,       \* bound on them: those whose thirty days may run out
  MaxLosses,       \* bound on the requests that die or whose answer is lost
  None             \* no cookie, no prompt, no answer

(* What the values of the constants must satisfy. *)
InterviewAssumption ==
  /\ QuestionCount \in Nat \ {0}
  /\ MaxExperiences \in Nat
  /\ MaxLosses \in Nat
  /\ MaxRetired \in Nat
  /\ None \notin Prompts

VARIABLES
  experiences,  \* rows of experiences, their prompt set and answers
  active,       \* prompts an assignment may choose: <<question, prompt>>
  tokens,       \* random tokens drawn so far
  cookie,       \* the browser's session cookie
  page,         \* what each tab shows
  step,         \* the next statement of each tab's request
  req,          \* what the request works on
  losses        \* requests lost so far

dbVars == <<experiences, active, tokens>>
vars == <<dbVars, cookie, page, step, req, losses>>

Questions == 1..QuestionCount
Profile   == QuestionCount + 1
Paying    == QuestionCount + 2

(* Tokens: the n-th random one, or the k-th derived from it by the hash of   *)
(* deriveNextOrderSessionToken.                                              *)
Token == Nat \X Nat
FreshToken == <<tokens + 1, 0>>
DeriveNext(token) == <<token[1], token[2] + 1>>

Modes == {"entry", "reuse", "fresh"}
PromptSet == [Questions -> Prompts]
NoPrompts == [q \in Questions |-> None]

(* An answer is kept as the prompt the customer was shown when giving it;    *)
(* the row itself carries only the question's slot.                          *)
Experience ==
  [token   : Token,
   stage   : 1..Paying,
   mode    : Modes,
   source  : Nat,
   prompts : PromptSet \cup {NoPrompts},
   answers : [Questions -> Prompts \cup {None}],
   expired : BOOLEAN]

Views == {"error", "resume", "repeat", "interview", "profile", "hosted", "closed"}
Page == [view : Views, stage : 1..Paying, id : Nat, prompts : PromptSet \cup {NoPrompts}]

Kinds == {"start", "restart", "answer", "repeat", "pay", "return"}
Steps == {"idle", "find", "create", "assign", "insert", "retire", "save",
          "resolve", "advance", "rotate", "reply", "refused"}

(* stage: as the first statement read it; chosen: the prompts drawn; reply:  *)
(* the token for Set-Cookie.                                                 *)
Request ==
  [kind : Kinds, token : Token \cup {None}, id : Nat, old : Nat, mode : Modes,
   stage : 1..Paying, question : Questions, prompt : Prompts \cup {None},
   chosen : PromptSet \cup {NoPrompts}, reply : Token \cup {None}]

(* Types, and what refers to a row: the row is there. *)
InterviewTypeOK ==
  /\ experiences \in Seq(Experience)
  /\ active \subseteq Questions \X Prompts
  /\ tokens \in Nat
  /\ cookie \in Token \cup {None}
  /\ page \in [Tabs -> Page]
  /\ step \in [Tabs -> Steps]
  /\ req \in [Tabs -> Request]
  /\ \A t \in Tabs : req[t].id \in 0..Len(experiences) /\ req[t].old \in 0..Len(experiences)
  /\ losses \in Nat

Bare(view) == [view |-> view, stage |-> 1, id |-> 0, prompts |-> NoPrompts]

NoRequest ==
  [kind |-> "start", token |-> None, id |-> 0, old |-> 0, mode |-> "entry",
   stage |-> 1, question |-> 1, prompt |-> None, chosen |-> NoPrompts, reply |-> None]

Init ==
  /\ experiences = <<>>
  /\ active = Questions \X Prompts
  /\ tokens = 0
  /\ cookie = None
  /\ page = [t \in Tabs |-> Bare("closed")]
  /\ step = [t \in Tabs |-> "idle"]
  /\ req = [t \in Tabs |-> NoRequest]
  /\ losses = 0

-----------------------------------------------------------------------------
(* Statements.                                                               *)

(* findBySessionHash: the live experience of a token, 0 if there is none.    *)
Holds(e, token) == experiences[e].token = token
Found(token) ==
  LET hits == {e \in 1..Len(experiences) : Holds(e, token) /\ ~experiences[e].expired}
  IN  IF hits = {} THEN 0 ELSE CHOOSE e \in hits : TRUE

Assigned(e) == experiences[e].prompts # NoPrompts

NewExperience(token, stage, mode, source, prompts, answers) ==
  [token |-> token, stage |-> stage, mode |-> mode, source |-> source,
   prompts |-> prompts, answers |-> answers, expired |-> FALSE]

(* createAssignment: ON CONFLICT (experience_id) DO NOTHING, so the first    *)
(* set stays and the loser reads it.                                         *)
InsertSet(e, chosen) ==
  experiences' = [experiences EXCEPT ![e].prompts = IF Assigned(e) THEN @ ELSE chosen]

(* rotateSessionHashIfCurrent: compares the hash, and nothing else.          *)
RotateIfCurrent(e, old, new) ==
  experiences' = [experiences EXCEPT ![e].token = IF @ = old THEN new ELSE @]

(* nextStage, as far as the interview goes.                                  *)
NextStage(stage) == stage + 1

(* The prompts an assignment may draw, none of them the source's in a fresh  *)
(* repeat; there are none when a family has no eligible prompt left.         *)
NoExclusion(t) == NoPrompts

Excluded(t) ==
  IF req[t].kind = "repeat" THEN experiences[req[t].old].prompts ELSE NoPrompts

Candidates(t) ==
  {chosen \in PromptSet : \A q \in Questions :
     <<q, chosen[q]>> \in active /\ chosen[q] # Excluded(t)[q]}

(* The set a request goes on with: START AGAIN retires the old session, and  *)
(* a fresh repeat refuses a set that repeats a prompt of the source.         *)
AfterAssignment(t, set) ==
  IF req[t].kind = "restart" THEN "retire"
  ELSE IF \E q \in Questions : set[q] = Excluded(t)[q] THEN "refused"
  ELSE "reply"

-----------------------------------------------------------------------------
(* Statements of the requests.                                               *)
At(t, kinds, s) == step[t] = s /\ req[t].kind \in kinds
Goto(t, s) == step' = [step EXCEPT ![t] = s]

(* bootstrap with a session cookie: its experience, or a new one.            *)
FindForStart(t) ==
  /\ At(t, {"start"}, "find")
  /\ LET e == Found(req[t].token)
     IN  IF e = 0 THEN Goto(t, "create") /\ UNCHANGED req
         ELSE /\ Goto(t, "assign")
              /\ req' = [req EXCEPT ![t].id = e, ![t].reply = req[t].token,
                                    ![t].stage = experiences[e].stage]
  /\ UNCHANGED <<dbVars, cookie, page, losses>>

(* restart: only an unfinished experience that has left question one, and    *)
(* not one whose checkout has started.                                       *)
FindForRestart(t) ==
  /\ At(t, {"restart"}, "find")
  /\ LET e == Found(req[t].token)
     IN  IF e # 0 /\ experiences[e].stage \in 2..Profile
         THEN Goto(t, "create") /\ req' = [req EXCEPT ![t].old = e]
         ELSE Goto(t, "refused") /\ UNCHANGED req
  /\ UNCHANGED <<dbVars, cookie, page, losses>>

(* ExperienceService.start.                                                  *)
Create(t) ==
  /\ At(t, {"start", "restart"}, "create")
  /\ Len(experiences) < MaxExperiences
  /\ experiences' = Append(experiences,
       NewExperience(FreshToken, 1, "entry", 0, NoPrompts, NoPrompts))
  /\ tokens' = tokens + 1
  /\ req' = [req EXCEPT ![t].id = Len(experiences) + 1, ![t].reply = FreshToken,
                        ![t].stage = 1]
  /\ Goto(t, "assign")
  /\ UNCHANGED <<active, cookie, page, losses>>

(* assignWithExclusions: an assignment that exists is never drawn again.     *)
Assign(t) ==
  /\ step[t] = "assign"
  /\ LET e == req[t].id
     IN  \/ /\ Assigned(e)
            /\ Goto(t, AfterAssignment(t, experiences[e].prompts))
            /\ UNCHANGED req
         \/ /\ ~Assigned(e)
            /\ \E chosen \in Candidates(t) : req' = [req EXCEPT ![t].chosen = chosen]
            /\ Goto(t, "insert")
         \/ /\ ~Assigned(e)
            /\ Candidates(t) = {}
            /\ Goto(t, "refused")
            /\ UNCHANGED req
  /\ UNCHANGED <<dbVars, cookie, page, losses>>

Insert(t) ==
  /\ step[t] = "insert"
  /\ InsertSet(req[t].id, req[t].chosen)
  /\ Goto(t, AfterAssignment(t, experiences'[req[t].id].prompts))
  /\ UNCHANGED <<active, tokens, cookie, page, req, losses>>

(* The replacement is ready: take the old session away, unless its token has *)
(* changed.                                                                  *)
Retire(t) ==
  /\ step[t] = "retire"
  /\ RotateIfCurrent(req[t].old, req[t].token, FreshToken)
  /\ tokens' = tokens + 1
  /\ Goto(t, IF Holds(req[t].old, req[t].token) THEN "reply" ELSE "refused")
  /\ UNCHANGED <<active, cookie, page, req, losses>>

(* answer: the question asked must be the one the stage waits for.           *)
FindForAnswer(t) ==
  /\ At(t, {"answer"}, "find")
  /\ LET e == Found(req[t].token)
     IN  IF e # 0 /\ experiences[e].stage = req[t].question
         THEN Goto(t, "save") /\ req' = [req EXCEPT ![t].id = e]
         ELSE Goto(t, "refused") /\ UNCHANGED req
  /\ UNCHANGED <<dbVars, cookie, page, losses>>

(* saveAnswerAndAdvance: the answer and the stage in one statement.          *)
Savable(e, q) ==
  /\ experiences[e].stage = q
  /\ experiences[e].answers[q] = None
  /\ ~experiences[e].expired

Save(t) ==
  /\ step[t] = "save"
  /\ LET e == req[t].id  q == req[t].question
     IN  IF Savable(e, q)
         THEN /\ experiences' = [experiences EXCEPT ![e].stage = NextStage(q),
                                                    ![e].answers[q] = req[t].prompt]
              /\ Goto(t, "reply")
         ELSE Goto(t, "refused") /\ UNCHANGED experiences
  /\ UNCHANGED <<active, tokens, cookie, page, req, losses>>

(* choose: the source is a session whose checkout has started.               *)
FindForRepeat(t) ==
  /\ At(t, {"repeat"}, "find")
  /\ LET e == Found(req[t].token)
     IN  IF e # 0 /\ experiences[e].stage = Paying /\ Assigned(e)
         THEN Goto(t, "resolve") /\ req' = [req EXCEPT ![t].old = e]
         ELSE Goto(t, "refused") /\ UNCHANGED req
  /\ UNCHANGED <<dbVars, cookie, page, losses>>

(* resolve: the child's token is derived, so a second choice meets the first *)
(* one's child at the unique hash and takes its mode.                        *)
ChildFromOne(source, token, mode) ==
  NewExperience(token, 1, mode, source,
    IF mode = "reuse" THEN experiences[source].prompts ELSE NoPrompts,
    IF mode = "reuse" THEN experiences[source].answers ELSE NoPrompts)

Child(source, token, mode) ==
  IF mode = "reuse"
  THEN NewExperience(token, Profile, "reuse", source,
                     experiences[source].prompts, experiences[source].answers)
  ELSE NewExperience(token, 1, "fresh", source, NoPrompts, NoPrompts)

Complete(e) == Assigned(e) /\ \A q \in Questions : experiences[e].answers[q] # None

Resolved(t, e, mode, stage) ==
  /\ req' = [req EXCEPT ![t].id = e, ![t].mode = mode, ![t].stage = stage,
                        ![t].reply = DeriveNext(req[t].token)]
  /\ Goto(t, IF mode = "fresh" THEN "assign" ELSE "reply")

Resolve(t) ==
  /\ step[t] = "resolve"
  /\ LET token == DeriveNext(req[t].token)
         source == req[t].old
         mode == req[t].mode
     IN  \/ \E e \in 1..Len(experiences) :
              /\ Holds(e, token)
              /\ Resolved(t, e, experiences[e].mode, experiences[e].stage)
              /\ UNCHANGED experiences
         \/ /\ ~\E e \in 1..Len(experiences) : Holds(e, token)
            /\ Len(experiences) < MaxExperiences
            /\ IF mode = "fresh" \/ Complete(source)
               THEN /\ experiences' = Append(experiences, Child(source, token, mode))
                    /\ Resolved(t, Len(experiences) + 1, mode,
                                Child(source, token, mode).stage)
               ELSE Goto(t, "refused") /\ UNCHANGED <<experiences, req>>
  /\ UNCHANGED <<active, tokens, cookie, page, losses>>

(* Starting the payment of the experience, and coming back from it.          *)
FindForPay(t) ==
  /\ At(t, {"pay"}, "find")
  /\ LET e == Found(req[t].token)
     IN  IF e # 0 /\ experiences[e].stage = Profile
         THEN Goto(t, "advance") /\ req' = [req EXCEPT ![t].id = e]
         ELSE Goto(t, "refused") /\ UNCHANGED req
  /\ UNCHANGED <<dbVars, cookie, page, losses>>

Advance(t) ==
  /\ step[t] = "advance"
  /\ LET e == req[t].id
     IN  IF experiences[e].stage = Profile /\ ~experiences[e].expired
         THEN experiences' = [experiences EXCEPT ![e].stage = Paying] /\ Goto(t, "reply")
         ELSE Goto(t, "refused") /\ UNCHANGED experiences
  /\ UNCHANGED <<active, tokens, cookie, page, req, losses>>

(* restoreFromCurrent: the paid experience gets a new token if the browser   *)
(* still holds its current one.                                              *)
Rotate(t) ==
  /\ step[t] = "rotate"
  /\ RotateIfCurrent(req[t].id, req[t].token, FreshToken)
  /\ tokens' = tokens + 1
  /\ req' = [req EXCEPT ![t].reply = FreshToken]
  /\ Goto(t, IF Holds(req[t].id, req[t].token) THEN "reply" ELSE "refused")
  /\ UNCHANGED <<active, cookie, page, losses>>

-----------------------------------------------------------------------------
(* The tabs.  Only "start" goes without a cookie; the other routes answer    *)
(* 401 or 409 to it.                                                         *)
First(kind) == IF kind = "start" /\ cookie = None THEN "create"
               ELSE IF kind = "return" THEN "rotate" ELSE "find"

Send(t, request) ==
  /\ step[t] = "idle"
  /\ request.kind # "start" => cookie # None
  /\ Goto(t, First(request.kind))
  /\ req' = [req EXCEPT ![t] = [request EXCEPT !.token = cookie]]
  /\ UNCHANGED <<dbVars, cookie, losses>>

Shows(t, view) == page[t].view = view
Turn(t, new) == page' = [page EXCEPT ![t] = new]

Load(t) ==
  /\ Send(t, NoRequest)
  /\ Turn(t, Bare("closed"))

(* continueExisting. *)
Continue(t) ==
  /\ step[t] = "idle"
  /\ Shows(t, "resume")
  /\ Turn(t, IF page[t].stage \in Questions THEN [page[t] EXCEPT !.view = "interview"]
             ELSE Bare("profile"))
  /\ UNCHANGED <<dbVars, cookie, step, req, losses>>

StartAgain(t) ==
  /\ Shows(t, "resume")
  /\ Send(t, [NoRequest EXCEPT !.kind = "restart"])
  /\ UNCHANGED page

(* The payload has the slot and the answer, not what the tab shows.          *)
Answer(t) ==
  /\ Shows(t, "interview")
  /\ Send(t, [NoRequest EXCEPT !.kind = "answer", !.question = page[t].stage,
                               !.prompt = page[t].prompts[page[t].stage]])
  /\ UNCHANGED page

ChooseRepeat(t, mode) ==
  /\ Shows(t, "repeat")
  /\ Send(t, [NoRequest EXCEPT !.kind = "repeat", !.mode = mode])
  /\ UNCHANGED page

Pay(t) ==
  /\ Shows(t, "profile")
  /\ Send(t, [NoRequest EXCEPT !.kind = "pay"])
  /\ UNCHANGED page

ComeBack(t) ==
  /\ Shows(t, "hosted")
  /\ Send(t, [NoRequest EXCEPT !.kind = "return", !.id = page[t].id])
  /\ Turn(t, Bare("closed"))

(* entryModeFor and resumePromptFor, of the stage the first statement read.  *)
Entry(stage) ==
  IF stage = Paying THEN "repeat" ELSE IF stage \in 2..Profile THEN "resume" ELSE "interview"

(* The variant that always begins at the first question. *)
InterviewingFromOne(request, view, stage) ==
  [view |-> "interview", id |-> request.id, stage |-> 1,
   prompts |-> experiences[request.id].prompts]

(* The page of an interview at a position, with the prompts of its row.      *)
Interviewing(request, view, stage) ==
  [view |-> view, id |-> request.id, prompts |-> experiences[request.id].prompts,
   stage |-> stage]

(* What each route answers: the page, and the token it sets as cookie.       *)
StartRoute(t) ==
  LET entry == Entry(req[t].stage)
  IN  [page   |-> IF entry = "repeat" THEN Bare(entry)
                  ELSE Interviewing(req[t], entry, req[t].stage),
       cookie |-> IF req[t].reply # req[t].token THEN req[t].reply ELSE None]

RestartRoute(t) ==
  [page |-> Interviewing(req[t], "interview", 1), cookie |-> req[t].reply]

(* A fresh child met at a later stage begins at position one again.          *)
RepeatRoute(t) ==
  [page   |-> IF req[t].mode = "reuse" THEN Bare("profile")
              ELSE Interviewing(req[t], "interview",
                     IF req[t].stage \in Questions THEN req[t].stage ELSE 1),
   cookie |-> req[t].reply]

(* InterviewFlow moves on by itself, whatever stage the answer names.        *)
AnswerRoute(t) ==
  [page   |-> IF page[t].stage = QuestionCount THEN Bare("profile")
              ELSE [page[t] EXCEPT !.stage = @ + 1],
   cookie |-> None]

PayRoute(t) == [page |-> [Bare("hosted") EXCEPT !.id = req[t].id], cookie |-> None]

ReturnRoute(t) == [page |-> Bare("closed"), cookie |-> req[t].reply]

Response(t) ==
  CASE req[t].kind = "start"   -> StartRoute(t)
    [] req[t].kind = "restart" -> RestartRoute(t)
    [] req[t].kind = "repeat"  -> RepeatRoute(t)
    [] req[t].kind = "answer"  -> AnswerRoute(t)
    [] req[t].kind = "pay"     -> PayRoute(t)
    [] req[t].kind = "return"  -> ReturnRoute(t)

Reply(t) ==
  /\ step[t] = "reply"
  /\ Turn(t, Response(t).page)
  /\ cookie' = IF Response(t).cookie = None THEN cookie ELSE Response(t).cookie
  /\ Goto(t, "idle")
  /\ req' = [req EXCEPT ![t] = NoRequest]
  /\ UNCHANGED <<dbVars, losses>>

(* An error: the entry page says so, the others stay as they are.            *)
Fail(t) ==
  /\ Turn(t, IF req[t].kind = "start" THEN Bare("error") ELSE page[t])
  /\ Goto(t, "idle")
  /\ req' = [req EXCEPT ![t] = NoRequest]
  /\ UNCHANGED <<dbVars, cookie>>

Refuse(t) == step[t] = "refused" /\ Fail(t) /\ UNCHANGED losses

(* The server dies or the response is lost.                                  *)
Lose(t) ==
  /\ step[t] \notin {"idle", "refused"}
  /\ losses < MaxLosses
  /\ losses' = losses + 1
  /\ Fail(t)

-----------------------------------------------------------------------------
(* updateQuestion: the owner retires a prompt, never the last active one of  *)
(* its family; thirty days pass, for a child never before its source.          *)
RetirePrompt(question, prompt) ==
  /\ <<question, prompt>> \in active
  /\ \E other \in Prompts \ {prompt} : <<question, other>> \in active
  /\ Cardinality((Questions \X Prompts) \ active) < MaxRetired
  /\ active' = active \ {<<question, prompt>>}
  /\ UNCHANGED <<experiences, tokens, cookie, page, step, req, losses>>

Expire(e) ==
  /\ e \in Expirable
  /\ ~experiences[e].expired
  /\ experiences[e].source # 0 => experiences[experiences[e].source].expired
  /\ experiences' = [experiences EXCEPT ![e].expired = TRUE]
  /\ UNCHANGED <<active, tokens, cookie, page, step, req, losses>>

Server(t) ==
  \/ FindForStart(t) \/ FindForRestart(t) \/ Create(t) \/ Assign(t) \/ Insert(t)
  \/ Retire(t) \/ FindForAnswer(t) \/ Save(t) \/ FindForRepeat(t) \/ Resolve(t)
  \/ FindForPay(t) \/ Advance(t) \/ Rotate(t) \/ Reply(t) \/ Refuse(t)

Customer(t) ==
  \/ Load(t) \/ Continue(t) \/ StartAgain(t) \/ Answer(t)
  \/ \E mode \in {"reuse", "fresh"} : ChooseRepeat(t, mode)
  \/ Pay(t) \/ ComeBack(t)

Next ==
  \/ \E t \in Tabs : Server(t) \/ Customer(t) \/ Lose(t)
  \/ \E q \in Questions, p \in Prompts : RetirePrompt(q, p)
  \/ \E e \in 1..Len(experiences) : Expire(e)

Spec == Init /\ [][Next]_vars

-----------------------------------------------------------------------------
Ids == 1..Len(experiences)
Stage(e) == experiences[e].stage
Answered(e) == {q \in Questions : experiences[e].answers[q] # None}

(* The stage tells how far the answers go, with none missing and none ahead, *)
(* however answers, repeats and lost responses interleave                    *)
(* (saveAnswerAndAdvance, resolve).                                          *)
AnswersMatchStage == \A e \in Ids : Answered(e) = {q \in Questions : q < Stage(e)}

(* A reused profile is its source's, prompt for prompt and answer for        *)
(* answer, whatever happens to either later (RepeatOrderService.choose).     *)
ReuseIsCopied ==
  \A e \in Ids : experiences[e].mode = "reuse" =>
    LET source == experiences[experiences[e].source]
    IN  experiences[e].prompts = source.prompts /\ experiences[e].answers = source.answers

(* A fresh repeat repeats no prompt of its source, and nobody answers what   *)
(* has not been drawn, whoever else chooses or bootstraps meanwhile.  This   *)
(* is of two tabs: while a payment return is on its way, or for good if its  *)
(* response is lost, the browser's cookie names a child that a delayed       *)
(* repeat creates later, and a third tab can bootstrap or answer it.         *)
RepeatKeepsItsMode ==
  \A e \in Ids :
    /\ Stage(e) > 1 => Assigned(e)
    /\ experiences[e].mode = "fresh" /\ Assigned(e) /\ losses = 0 =>
         \A q \in Questions :
           experiences[e].prompts[q] # experiences[experiences[e].source].prompts[q]

(* The prompts a tab shows are those stored for the experience it was given, *)
(* also when two requests assigned them at once (the raced set).             *)
ShownIsStored ==
  \A t \in Tabs : page[t].prompts # NoPrompts =>
    page[t].prompts = experiences[page[t].id].prompts

(* Refresh, resume and races never reshuffle: prompts once assigned and      *)
(* answers once given are there for good.                                    *)
NothingReshuffled ==
  \A e \in Ids :
    /\ Assigned(e) => experiences'[e].prompts = experiences[e].prompts
    /\ \A q \in Answered(e) : experiences'[e].answers[q] = experiences[e].answers[q]

(* What is stored fits together, is what the tabs show, and stays.           *)
InterviewIsKept ==
  /\ [](InterviewTypeOK /\ AnswersMatchStage /\ ReuseIsCopied /\ ShownIsStored)
  /\ [][NothingReshuffled]_vars

(* The cookie names a live row, or the response that replaces it is on its   *)
(* way: START AGAIN and the payment return never leave the browser without   *)
(* its session, short of a lost response.                                    *)
NotStranded ==
  losses = 0 /\ cookie # None =>
    \/ \E e \in Ids : Holds(e, cookie)
    \/ \E t \in Tabs : step[t] = "reply" /\ Response(t).cookie # None

(* One source, one child (Masterplan:557).                                   *)
OneChild ==
  \A e, f \in Ids :
    experiences[e].source # 0 /\ experiences[e].source = experiences[f].source => e = f

(* Masterplan:138: an answer stays bound to the prompt it answered.          *)
AnswerBindsShownPrompt ==
  \A e \in Ids : \A q \in Answered(e) : experiences[e].answers[q] = experiences[e].prompts[q]

(* A test's "START AGAIN refuses to retire a checkout-started purchase       *)
(* session".                                                                 *)
RestartSparesCheckout ==
  [][\A t \in Tabs : step[t] = "retire" /\ step'[t] = "reply" => Stage(req[t].old) # Paying]_vars

(* The customer of the liveness property keeps trying: answers, and reloads  *)
(* and continues when an answer was not taken.  The server's requests run on.*)
Persistence ==
  \A t \in Tabs : /\ WF_vars(Server(t))
                  /\ SF_vars(Load(t)) /\ SF_vars(Continue(t)) /\ SF_vars(Answer(t))

FairSpec == Spec /\ Persistence

(* Such a customer completes the interview although responses get lost and   *)
(* leave the tab asking what the server has already stored (until the bound  *)
(* on experiences is met).                                                   *)
Finished == Len(experiences) = MaxExperiences \/ \E t \in Tabs : page[t].view = "profile"
PersistentCustomerFinishes == <>Finished
=============================================================================
