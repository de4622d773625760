--------------------------- MODULE InterviewProofs --------------------------
(***************************************************************************)
(* Theorems about Interview, for any number of tabs, questions, prompts,   *)
(* experiences and lost responses.                                         *)
(*                                                                         *)
(* The rows of the experiences only grow (GrowsTo): a prompt set that is   *)
(* assigned and an answer that is given stay.  What a tab shows and what   *)
(* its request works on are facts about rows that survive such growth      *)
(* (ShownOK, Fits), so a step of one tab cannot spoil those of another;    *)
(* and the row it writes is sound by what its request fits (Sound).        *)
(***************************************************************************)
EXTENDS Interview, SequenceTheorems, TLAPS

(* A row whose prompts are drawn and whose questions are all answered.       *)
Full(x) == x.prompts \in PromptSet /\ \A q \in Questions : x.answers[q] \in Prompts

(* A row among the rows X: its answers go as far as its stage, only a row    *)
(* made by start has the token of a start, and a reused profile is full and  *)
(* its source's.                                                             *)
Sound(x, X) ==
  /\ \A q \in Questions : x.answers[q] # None <=> q < x.stage
  /\ x.mode = "entry" => x.token[2] = 0
  /\ x.mode = "reuse" => /\ x.source \in 1..Len(X) /\ Full(x)
                         /\ X[x.source].prompts = x.prompts
                         /\ X[x.source].answers = x.answers
AllSound(X) == \A e \in 1..Len(X) : Sound(X[e], X)

(* What no step takes back of a row, and of the rows.                        *)
Kept(x, y) ==
  /\ x.prompts # NoPrompts => y.prompts = x.prompts
  /\ \A q \in Questions : x.answers[q] # None => y.answers[q] = x.answers[q]
GrowsTo(X, Y) == Len(X) <= Len(Y) /\ \A e \in 1..Len(X) : Kept(X[e], Y[e])

(* What a page shows is stored in the rows X.                                *)
ShownOK(p, X) ==
  /\ p.view \in {"interview", "resume"} => p.prompts \in PromptSet
  /\ p.view = "interview" => p.stage \in Questions
  /\ p.view = "hosted" => p.id \in 1..Len(X)
  /\ p.prompts # NoPrompts => p.id \in 1..Len(X) /\ X[p.id].prompts = p.prompts

(* What a request that comes to statement s with r, from a tab that shows p, *)
(* relies on.                                                                *)
Drawn(r, X) == r.id \in 1..Len(X) /\ X[r.id].prompts \in PromptSet
FitsStart(s, r, X) ==
  /\ s \in {"assign", "insert"} => r.id \in 1..Len(X) /\ r.kind \in {"start", "restart", "repeat"}
  /\ s = "insert" => r.chosen \in PromptSet
  /\ s \in {"create", "assign", "insert", "retire"} /\ r.kind = "restart" => r.old \in 1..Len(X)
  /\ s = "retire" => r.kind = "restart" /\ Drawn(r, X)
  /\ s = "reply" /\ r.kind \in {"start", "restart"} => Drawn(r, X)
FitsRepeat(s, r, X) ==
  /\ s = "find" /\ r.kind = "repeat" => r.mode \in {"reuse", "fresh"}
  /\ s = "resolve" => /\ r.kind = "repeat" /\ r.mode \in {"reuse", "fresh"}
                      /\ r.old \in 1..Len(X) /\ r.token \in Token
  /\ s = "reply" /\ r.kind = "repeat" => r.mode = "reuse" \/ Drawn(r, X)
FitsRest(s, r, p, X) ==
  /\ s = "save" => r.kind = "answer" /\ r.id \in 1..Len(X)
  /\ s # "idle" /\ r.kind = "answer" => r.prompt \in Prompts /\ p.view = "interview"
  /\ s = "advance" => r.kind = "pay" /\ r.id \in 1..Len(X)
  /\ s = "rotate" => r.kind = "return" /\ r.id \in 1..Len(X)
  /\ s = "reply" /\ r.kind = "pay" => r.id \in 1..Len(X)
Fits(s, r, p, X) ==
  /\ r.id \in 0..Len(X) /\ r.old \in 0..Len(X)
  /\ FitsStart(s, r, X) /\ FitsRepeat(s, r, X) /\ FitsRest(s, r, p, X)

IInv ==
  /\ InterviewTypeOK
  /\ AllSound(experiences)
  /\ \A t \in Tabs : ShownOK(page[t], experiences)
  /\ \A t \in Tabs : Fits(step[t], req[t], page[t], experiences)
-----------------------------------------------------------------------------
(* There is a question, and a set that was drawn is not the empty one.       *)
LEMMA Drawable ==
  ASSUME InterviewAssumption
  PROVE  /\ 1 \in Questions /\ Questions \subseteq 1..Profile /\ 1 \in 1..Paying
         /\ Profile \in Nat /\ Paying \in Nat /\ Profile = QuestionCount + 1 /\ Paying = QuestionCount + 2
         /\ NoPrompts \notin PromptSet
         /\ NoPrompts \in [Questions -> Prompts \cup {None}]
<1>1. 1 \in Questions
  BY DEF InterviewAssumption, Questions
<1>2. ASSUME NoPrompts \in PromptSet PROVE FALSE
  <2>1. NoPrompts[1] \in Prompts
    BY <1>1, <1>2 DEF PromptSet
  <2>2. NoPrompts[1] = None
    BY <1>1 DEF NoPrompts
  <2> QED BY <2>1, <2>2 DEF InterviewAssumption
<1> QED BY <1>1, <1>2 DEF InterviewAssumption, Questions, Profile, Paying, NoPrompts

(* A full row keeps its prompts and all its answers.                         *)
LEMMA FullStays ==
  ASSUME InterviewAssumption, NEW x \in Experience, NEW y \in Experience, Kept(x, y), Full(x)
  PROVE  y.prompts = x.prompts /\ y.answers = x.answers
<1>1. x.prompts # NoPrompts
  BY Drawable DEF Full
<1>2. \A q \in Questions : x.answers[q] # None
  BY DEF Full, InterviewAssumption
<1>3. /\ x.answers \in [Questions -> Prompts \cup {None}]
      /\ y.answers \in [Questions -> Prompts \cup {None}]
  BY DEF Experience
<1>4. \A q \in Questions : y.answers[q] = x.answers[q]
  BY <1>2 DEF Kept
<1>5. y.answers = x.answers
  BY <1>3, <1>4
<1> QED BY <1>1, <1>5 DEF Kept

(* Lengths are numbers, and the rows grow into themselves.                   *)
LEMMA Rows ==
  ASSUME NEW X \in Seq(Experience)
  PROVE  /\ Len(X) \in Nat /\ GrowsTo(X, X)
         /\ \A e \in 1..Len(X) : X[e] \in Experience
BY LenProperties, ElementOfSeq DEF GrowsTo, Kept

(* What a row, a page or a request relies on survives the growth of rows.    *)
LEMMA SoundGrows ==
  ASSUME InterviewAssumption, NEW X \in Seq(Experience), NEW Y \in Seq(Experience),
         GrowsTo(X, Y), NEW x \in Experience, Sound(x, X)
  PROVE  Sound(x, Y)
<1>1. CASE x.mode # "reuse"
  BY <1>1 DEF Sound
<1>2. CASE x.mode = "reuse"
  <2>1. PICK e : e = x.source
    OBVIOUS
  <2>2. e \in 1..Len(X) /\ Full(x) /\ X[e].prompts = x.prompts /\ X[e].answers = x.answers
    BY <1>2, <2>1 DEF Sound
  <2>3. e \in 1..Len(Y) /\ Kept(X[e], Y[e])
    BY <2>2, Rows DEF GrowsTo
  <2>4. X[e] \in Experience /\ Y[e] \in Experience /\ Full(X[e])
    BY <2>2, <2>3, Rows DEF Full
  <2>5. Y[e].prompts = x.prompts /\ Y[e].answers = x.answers
    BY <2>2, <2>3, <2>4, FullStays
  <2> QED BY <1>2, <2>1, <2>2, <2>3, <2>5 DEF Sound
<1> QED BY <1>1, <1>2

(* What a page shows stays stored.                                           *)
LEMMA ShownGrows ==
  ASSUME InterviewAssumption, NEW X \in Seq(Experience), NEW Y \in Seq(Experience),
         GrowsTo(X, Y), NEW p, ShownOK(p, X)
  PROVE  ShownOK(p, Y)
<1>1. p.id \in 1..Len(X) => p.id \in 1..Len(Y) /\ Kept(X[p.id], Y[p.id])
  BY Rows DEF GrowsTo
<1> QED BY <1>1 DEF ShownOK, Kept

(* What a request relies on stays.                                           *)
LEMMA FitsGrows ==
  ASSUME InterviewAssumption, NEW X \in Seq(Experience), NEW Y \in Seq(Experience),
         GrowsTo(X, Y), NEW s, NEW r, NEW p, Fits(s, r, p, X)
  PROVE  Fits(s, r, p, Y)
<1>1. /\ r.id \in 1..Len(X) => r.id \in 1..Len(Y) /\ Kept(X[r.id], Y[r.id])
      /\ r.old \in 1..Len(X) => r.old \in 1..Len(Y)
      /\ r.id \in 0..Len(Y) /\ r.old \in 0..Len(Y)
  BY Rows DEF GrowsTo, Fits
<1>2. Drawn(r, X) => Drawn(r, Y)
  <2>1. X[r.id].prompts \in PromptSet => X[r.id].prompts # NoPrompts
    BY Drawable
  <2> QED BY <1>1, <2>1 DEF Drawn, Kept
<1>3. FitsStart(s, r, Y)
  BY <1>1, <1>2 DEF Fits, FitsStart
<1>4. FitsRepeat(s, r, Y)
  BY <1>1, <1>2 DEF Fits, FitsRepeat
<1>5. FitsRest(s, r, p, Y)
  BY <1>1 DEF Fits, FitsRest
<1> QED BY <1>1, <1>3, <1>4, <1>5 DEF Fits

(* A row changes, and keeps what it has.                                     *)
LEMMA RowChanged ==
  ASSUME InterviewAssumption, NEW X \in Seq(Experience), AllSound(X), NEW e \in 1..Len(X),
         NEW x \in Experience, Kept(X[e], x), Sound(x, X),
         NEW Y, Y \in Seq(Experience), Len(Y) = Len(X),
         \A f \in 1..Len(X) : Y[f] = IF f = e THEN x ELSE X[f]
  PROVE  /\ Y \in Seq(Experience) /\ Len(Y) = Len(X) /\ GrowsTo(X, Y) /\ AllSound(Y)
         /\ Y[e] = x
<1>1. /\ Y \in Seq(Experience) /\ Len(Y) = Len(X) /\ Len(X) \in Nat
      /\ \A f \in 1..Len(X) : Y[f] = IF f = e THEN x ELSE X[f]
  BY LenProperties
<1>2. GrowsTo(X, Y)
  BY <1>1 DEF GrowsTo, Kept
<1>3. ASSUME NEW f \in 1..Len(Y) PROVE Sound(Y[f], Y)
  <2>1. PICK y : y = Y[f]
    OBVIOUS
  <2>2. y \in Experience /\ Sound(y, X)
    BY <1>1, <2>1, Rows DEF AllSound
  <2> QED BY <1>1, <1>2, <2>1, <2>2, SoundGrows
<1> QED BY <1>1, <1>2, <1>3 DEF AllSound

(* A row is added.                                                           *)
LEMMA RowAdded ==
  ASSUME InterviewAssumption, NEW X \in Seq(Experience), AllSound(X),
         NEW x \in Experience, Sound(x, X), NEW Y, Y = Append(X, x)
  PROVE  /\ Y \in Seq(Experience) /\ Len(Y) = Len(X) + 1 /\ GrowsTo(X, Y) /\ AllSound(Y)
         /\ Y[Len(X) + 1] = x
<1>1. /\ Y \in Seq(Experience) /\ Len(Y) = Len(X) + 1 /\ Len(X) \in Nat
      /\ \A f \in 1..Len(X) : Y[f] = X[f]
      /\ Y[Len(X) + 1] = x
  BY AppendProperties, LenProperties
<1>2. GrowsTo(X, Y)
  BY <1>1 DEF GrowsTo, Kept
<1>3. ASSUME NEW f \in 1..Len(Y) PROVE Sound(Y[f], Y)
  <2>1. PICK y : y = Y[f]
    OBVIOUS
  <2>2. f \in 1..Len(X) \/ f = Len(X) + 1
    BY <1>1
  <2>3. y \in Experience /\ Sound(y, X)
    BY <1>1, <2>1, <2>2, Rows DEF AllSound
  <2> QED BY <1>1, <1>2, <2>1, <2>3, SoundGrows
<1> QED BY <1>1, <1>2, <1>3 DEF AllSound
-----------------------------------------------------------------------------
(* The step of one tab: it moves to statement s with r and shows p, and the  *)
(* rows grow to Y.                                                           *)
Moves(t, s, r, p) ==
  /\ step' = [step EXCEPT ![t] = s]
  /\ req' = [req EXCEPT ![t] = r]
  /\ page' = [page EXCEPT ![t] = p]

(* Then all that was true of the other tabs still is.                        *)
LEMMA TabStep ==
  ASSUME InterviewAssumption, IInv, NEW t \in Tabs, NEW s \in Steps, NEW r \in Request,
         NEW p \in Page, NEW Y \in Seq(Experience), Moves(t, s, r, p), experiences' = Y,
         GrowsTo(experiences, Y), AllSound(Y), Fits(s, r, p, Y), ShownOK(p, Y),
         active' = active, tokens' \in Nat, cookie' \in Token \cup {None}, losses' \in Nat
  PROVE  IInv' /\ GrowsTo(experiences, experiences')
<1>1. /\ experiences \in Seq(Experience)
      /\ step \in [Tabs -> Steps] /\ req \in [Tabs -> Request] /\ page \in [Tabs -> Page]
  BY DEF IInv, InterviewTypeOK
<1>2. /\ step' \in [Tabs -> Steps] /\ req' \in [Tabs -> Request] /\ page' \in [Tabs -> Page]
  BY <1>1 DEF Moves
<1>3. ASSUME NEW u \in Tabs
      PROVE  ShownOK(page'[u], Y) /\ Fits(step'[u], req'[u], page'[u], Y)
  <2>1. CASE u = t
    <3>1. step'[u] = s /\ req'[u] = r /\ page'[u] = p
      BY <2>1, <1>1 DEF Moves
    <3> QED BY <3>1
  <2>2. CASE u # t
    <3>1. PICK s1 : s1 = step[u]
      OBVIOUS
    <3>2. PICK r1 : r1 = req[u]
      OBVIOUS
    <3>3. PICK p1 : p1 = page[u]
      OBVIOUS
    <3>4. step'[u] = s1 /\ req'[u] = r1 /\ page'[u] = p1
      BY <2>2, <3>1, <3>2, <3>3, <1>1 DEF Moves
    <3>5. ShownOK(p1, experiences) /\ Fits(s1, r1, p1, experiences)
      BY <3>1, <3>2, <3>3 DEF IInv
    <3>6. ShownOK(p1, Y) /\ Fits(s1, r1, p1, Y)
      BY <1>1, <3>5, ShownGrows, FitsGrows
    <3> QED BY <3>4, <3>6
  <2> QED BY <2>1, <2>2
<1>4. \A u \in Tabs : req'[u].id \in 0..Len(Y) /\ req'[u].old \in 0..Len(Y)
  BY <1>3 DEF Fits
<1>5. InterviewTypeOK'
  BY <1>2, <1>4 DEF IInv, InterviewTypeOK
<1> QED BY <1>3, <1>5 DEF IInv

(* The request goes on to s with r; the page, and the rows, stay.            *)
LEMMA Goes ==
  ASSUME InterviewAssumption, IInv, NEW t \in Tabs, NEW s \in Steps, NEW r \in Request,
         Fits(s, r, page[t], experiences), Goto(t, s), req' = [req EXCEPT ![t] = r],
         UNCHANGED <<dbVars, cookie, page, losses>>
  PROVE  IInv' /\ GrowsTo(experiences, experiences')
<1>1. PICK p : p = page[t]
  OBVIOUS
<1>2. PICK Y : Y = experiences
  OBVIOUS
<1>3. /\ Y \in Seq(Experience) /\ page \in [Tabs -> Page] /\ p \in Page
      /\ tokens \in Nat /\ cookie \in Token \cup {None} /\ losses \in Nat
  BY <1>1, <1>2 DEF IInv, InterviewTypeOK
<1>4. Moves(t, s, r, p)
  BY <1>1, <1>3 DEF Moves, Goto
<1>5. Fits(s, r, p, Y) /\ ShownOK(p, Y) /\ AllSound(Y) /\ GrowsTo(experiences, Y)
  BY <1>1, <1>2, <1>3, Rows DEF IInv
<1>6. /\ experiences' = Y /\ active' = active
      /\ tokens' \in Nat /\ cookie' \in Token \cup {None} /\ losses' \in Nat
  BY <1>2, <1>3 DEF dbVars
<1> QED BY <1>3, <1>4, <1>5, <1>6, TabStep

(* The request goes on to s with r, and writes the rows Y.                   *)
LEMMA Writes ==
  ASSUME InterviewAssumption, IInv, NEW t \in Tabs, NEW s \in Steps, NEW r \in Request,
         NEW Y \in Seq(Experience), GrowsTo(experiences, Y), AllSound(Y), experiences' = Y,
         Fits(s, r, page[t], Y), Goto(t, s), req' = [req EXCEPT ![t] = r], tokens' \in Nat,
         UNCHANGED <<active, cookie, page, losses>>
  PROVE  IInv' /\ GrowsTo(experiences, experiences')
<1>1. PICK p : p = page[t]
  OBVIOUS
<1>2. /\ experiences \in Seq(Experience) /\ page \in [Tabs -> Page] /\ p \in Page
      /\ cookie \in Token \cup {None} /\ losses \in Nat
  BY <1>1 DEF IInv, InterviewTypeOK
<1>3. Moves(t, s, r, p)
  BY <1>1, <1>2 DEF Moves, Goto
<1>4. ShownOK(p, experiences)
  BY <1>1 DEF IInv
<1>5. Fits(s, r, p, Y) /\ ShownOK(p, Y)
  BY <1>1, <1>2, <1>4, ShownGrows
<1>6. active' = active /\ cookie' \in Token \cup {None} /\ losses' \in Nat
  BY <1>2
<1> QED BY <1>2, <1>3, <1>5, <1>6, TabStep

-----------------------------------------------------------------------------
(* What is known of one tab.                                                 *)
LEMMA Here ==
  ASSUME IInv, NEW t \in Tabs
  PROVE  /\ req[t] \in Request /\ page[t] \in Page /\ step[t] \in Steps
         /\ Fits(step[t], req[t], page[t], experiences) /\ ShownOK(page[t], experiences)
         /\ experiences \in Seq(Experience) /\ AllSound(experiences)
         /\ Len(experiences) \in Nat
         /\ req \in [Tabs -> Request]
         /\ req = [req EXCEPT ![t] = req[t]]
BY LenProperties DEF IInv, InterviewTypeOK

(* The row that was found has the token, and one was found.                  *)
LEMMA FoundRow ==
  ASSUME NEW token, NEW e, e = Found(token), e # 0
  PROVE  e \in 1..Len(experiences) /\ experiences[e].token = token
BY DEF Found, Holds

(* A refused request relies on nothing.                                      *)
LEMMA RefusedFits ==
  ASSUME NEW s, NEW r, NEW p, NEW X, Fits(s, r, p, X), s # "idle"
  PROVE  Fits("refused", r, p, X)
BY DEF Fits, FitsStart, FitsRepeat, FitsRest

(* The request is refused.                                                   *)
LEMMA Refused ==
  ASSUME InterviewAssumption, IInv, NEW t \in Tabs, step[t] # "idle", Goto(t, "refused"),
         UNCHANGED <<dbVars, cookie, page, req, losses>>
  PROVE  IInv' /\ GrowsTo(experiences, experiences')
<1>1. PICK r \in Request : r = req[t]
  BY Here
<1>2. Fits("refused", r, page[t], experiences)
  BY <1>1, Here, RefusedFits
<1>3. req' = [req EXCEPT ![t] = r]
  BY <1>1, Here
<1> QED BY <1>2, <1>3, Goes DEF Steps

(* Bootstrap finds the session of the cookie, or none.                       *)
LEMMA FindForStartKeeps ==
  ASSUME InterviewAssumption, IInv, NEW t \in Tabs, FindForStart(t)
  PROVE  IInv' /\ GrowsTo(experiences, experiences')
<1>1. PICK r \in Request : r = req[t]
  BY Here
<1>2. PICK e : e = Found(r.token)
  OBVIOUS
<1>3. /\ r.kind = "start" /\ step[t] = "find" /\ Fits("find", r, page[t], experiences)
      /\ UNCHANGED <<dbVars, cookie, page, losses>>
  BY <1>1, Here DEF FindForStart, At
<1>4. CASE e = 0
  <2>1. Goto(t, "create") /\ req' = [req EXCEPT ![t] = r]
    BY <1>1, <1>2, <1>4, Here DEF FindForStart
  <2>2. Fits("create", r, page[t], experiences)
    BY <1>3 DEF Fits, FitsStart, FitsRepeat, FitsRest
  <2> QED BY <1>3, <2>1, <2>2, Goes DEF Steps
<1>5. CASE e # 0
  <2>1. e \in 1..Len(experiences) /\ experiences[e].token = r.token
    BY <1>2, <1>5, FoundRow
  <2>2. experiences[e] \in Experience /\ e \in Nat
    BY <2>1, Here, Rows
  <2>3. PICK k \in 1..Paying : k = experiences[e].stage
    BY <2>2 DEF Experience
  <2>4. r.token \in Token
    BY <2>1, <2>2 DEF Experience
  <2>5. PICK w : w = [r EXCEPT !.id = e, !.reply = r.token, !.stage = k]
    OBVIOUS
  <2>6. w \in Request /\ w.id = e /\ w.kind = "start" /\ w.old = r.old
    BY <1>3, <2>2, <2>4, <2>5 DEF Request
  <2>7. req' = [req EXCEPT ![t].id = e, ![t].reply = r.token, ![t].stage = k]
    BY <1>1, <1>2, <1>5, <2>3 DEF FindForStart
  <2>8. Goto(t, "assign") /\ req' = [req EXCEPT ![t] = w]
    BY <1>1, <1>2, <1>5, <2>5, <2>7, Here DEF FindForStart
  <2>9. Fits("assign", w, page[t], experiences)
    BY <1>3, <2>1, <2>6, Here DEF Fits, FitsStart, FitsRepeat, FitsRest
  <2> QED BY <1>3, <2>6, <2>8, <2>9, Goes DEF Steps
<1> QED BY <1>4, <1>5

(* START AGAIN finds the session it will retire.                             *)
LEMMA FindForRestartKeeps ==
  ASSUME InterviewAssumption, IInv, NEW t \in Tabs, FindForRestart(t)
  PROVE  IInv' /\ GrowsTo(experiences, experiences')
<1>1. PICK r \in Request : r = req[t]
  BY Here
<1>2. PICK e : e = Found(r.token)
  OBVIOUS
<1>3. /\ r.kind = "restart" /\ step[t] = "find" /\ Fits("find", r, page[t], experiences)
      /\ UNCHANGED <<dbVars, cookie, page, losses>>
  BY <1>1, Here DEF FindForRestart, At
<1>4. CASE e # 0 /\ experiences[e].stage \in 2..Profile
  <2>1. e \in 1..Len(experiences) /\ e \in Nat
    BY <1>2, <1>4, FoundRow, Here
  <2>2. PICK w : w = [r EXCEPT !.old = e]
    OBVIOUS
  <2>3. w \in Request /\ w.old = e /\ w.kind = "restart" /\ w.id = r.id
    BY <1>3, <2>1, <2>2 DEF Request
  <2>4. Goto(t, "create") /\ req' = [req EXCEPT ![t] = w]
    BY <1>1, <1>2, <1>4, <2>2, Here DEF FindForRestart
  <2>5. Fits("create", w, page[t], experiences)
    BY <1>3, <2>1, <2>3, Here DEF Fits, FitsStart, FitsRepeat, FitsRest
  <2> QED BY <1>3, <2>3, <2>4, <2>5, Goes DEF Steps
<1>5. CASE ~(e # 0 /\ experiences[e].stage \in 2..Profile)
  <2>1. Goto(t, "refused") /\ UNCHANGED req
    BY <1>1, <1>2, <1>5 DEF FindForRestart
  <2> QED BY <1>3, <2>1, Refused
<1> QED BY <1>4, <1>5

(* An answer finds the session that waits for it.                            *)
LEMMA FindForAnswerKeeps ==
  ASSUME InterviewAssumption, IInv, NEW t \in Tabs, FindForAnswer(t)
  PROVE  IInv' /\ GrowsTo(experiences, experiences')
<1>1. PICK r \in Request : r = req[t]
  BY Here
<1>2. PICK e : e = Found(r.token)
  OBVIOUS
<1>3. /\ r.kind = "answer" /\ step[t] = "find" /\ Fits("find", r, page[t], experiences)
      /\ UNCHANGED <<dbVars, cookie, page, losses>>
  BY <1>1, Here DEF FindForAnswer, At
<1>4. CASE e # 0 /\ experiences[e].stage = r.question
  <2>1. e \in 1..Len(experiences) /\ e \in Nat
    BY <1>2, <1>4, FoundRow, Here
  <2>2. PICK w : w = [r EXCEPT !.id = e]
    OBVIOUS
  <2>3. w \in Request /\ w.id = e /\ w.kind = "answer" /\ w.old = r.old /\ w.prompt = r.prompt
    BY <1>3, <2>1, <2>2 DEF Request
  <2>4. Goto(t, "save") /\ req' = [req EXCEPT ![t] = w]
    BY <1>1, <1>2, <1>4, <2>2, Here DEF FindForAnswer
  <2>5. Fits("save", w, page[t], experiences)
    BY <1>3, <2>1, <2>3, Here DEF Fits, FitsStart, FitsRepeat, FitsRest
  <2> QED BY <1>3, <2>3, <2>4, <2>5, Goes DEF Steps
<1>5. CASE ~(e # 0 /\ experiences[e].stage = r.question)
  <2>1. Goto(t, "refused") /\ UNCHANGED req
    BY <1>1, <1>2, <1>5 DEF FindForAnswer
  <2> QED BY <1>3, <2>1, Refused
<1> QED BY <1>4, <1>5

(* A repeat finds its source, of which the token is the one it sent.         *)
LEMMA FindForRepeatKeeps ==
  ASSUME InterviewAssumption, IInv, NEW t \in Tabs, FindForRepeat(t)
  PROVE  IInv' /\ GrowsTo(experiences, experiences')
<1>1. PICK r \in Request : r = req[t]
  BY Here
<1>2. PICK e : e = Found(r.token)
  OBVIOUS
<1>3. /\ r.kind = "repeat" /\ step[t] = "find" /\ Fits("find", r, page[t], experiences)
      /\ UNCHANGED <<dbVars, cookie, page, losses>>
  BY <1>1, Here DEF FindForRepeat, At
<1>4. CASE e # 0 /\ experiences[e].stage = Paying /\ Assigned(e)
  <2>1. e \in 1..Len(experiences) /\ e \in Nat /\ experiences[e].token = r.token
    BY <1>2, <1>4, FoundRow, Here
  <2>2. r.token \in Token
    BY <2>1, Here, Rows DEF Experience
  <2>3. PICK w : w = [r EXCEPT !.old = e]
    OBVIOUS
  <2>4. /\ w \in Request /\ w.old = e /\ w.kind = "repeat" /\ w.id = r.id
        /\ w.mode = r.mode /\ w.token = r.token
    BY <1>3, <2>1, <2>3 DEF Request
  <2>5. Goto(t, "resolve") /\ req' = [req EXCEPT ![t] = w]
    BY <1>1, <1>2, <1>4, <2>3, Here DEF FindForRepeat
  <2>6. Fits("resolve", w, page[t], experiences)
    BY <1>3, <2>1, <2>2, <2>4, Here DEF Fits, FitsStart, FitsRepeat, FitsRest
  <2> QED BY <1>3, <2>4, <2>5, <2>6, Goes DEF Steps
<1>5. CASE ~(e # 0 /\ experiences[e].stage = Paying /\ Assigned(e))
  <2>1. Goto(t, "refused") /\ UNCHANGED req
    BY <1>1, <1>2, <1>5 DEF FindForRepeat
  <2> QED BY <1>3, <2>1, Refused
<1> QED BY <1>4, <1>5

(* The payment finds a complete profile.                                     *)
LEMMA FindForPayKeeps ==
  ASSUME InterviewAssumption, IInv, NEW t \in Tabs, FindForPay(t)
  PROVE  IInv' /\ GrowsTo(experiences, experiences')
<1>1. PICK r \in Request : r = req[t]
  BY Here
<1>2. PICK e : e = Found(r.token)
  OBVIOUS
<1>3. /\ r.kind = "pay" /\ step[t] = "find" /\ Fits("find", r, page[t], experiences)
      /\ UNCHANGED <<dbVars, cookie, page, losses>>
  BY <1>1, Here DEF FindForPay, At
<1>4. CASE e # 0 /\ experiences[e].stage = Profile
  <2>1. e \in 1..Len(experiences) /\ e \in Nat
    BY <1>2, <1>4, FoundRow, Here
  <2>2. PICK w : w = [r EXCEPT !.id = e]
    OBVIOUS
  <2>3. w \in Request /\ w.id = e /\ w.kind = "pay" /\ w.old = r.old
    BY <1>3, <2>1, <2>2 DEF Request
  <2>4. Goto(t, "advance") /\ req' = [req EXCEPT ![t] = w]
    BY <1>1, <1>2, <1>4, <2>2, Here DEF FindForPay
  <2>5. Fits("advance", w, page[t], experiences)
    BY <1>3, <2>1, <2>3, Here DEF Fits, FitsStart, FitsRepeat, FitsRest
  <2> QED BY <1>3, <2>3, <2>4, <2>5, Goes DEF Steps
<1>5. CASE ~(e # 0 /\ experiences[e].stage = Profile)
  <2>1. Goto(t, "refused") /\ UNCHANGED req
    BY <1>1, <1>2, <1>5 DEF FindForPay
  <2> QED BY <1>3, <2>1, Refused
<1> QED BY <1>4, <1>5

-----------------------------------------------------------------------------
(* The tokens that are drawn.                                                *)
LEMMA Fresh ==
  ASSUME IInv
  PROVE  FreshToken \in Token /\ FreshToken[2] = 0 /\ tokens \in Nat /\ tokens + 1 \in Nat
BY DEF IInv, InterviewTypeOK, FreshToken, Token

(* A derived token is not one that was drawn.                                *)
LEMMA Derived ==
  ASSUME NEW token \in Token
  PROVE  DeriveNext(token) \in Token /\ DeriveNext(token)[2] # 0
<1>1. PICK a \in Nat, b \in Nat : token = <<a, b>>
  BY DEF Token
<1>2. DeriveNext(token) = <<a, b + 1>>
  BY <1>1 DEF DeriveNext
<1> QED BY <1>2 DEF Token

(* A row of a session that has begun.                                        *)
LEMMA BegunSound ==
  ASSUME InterviewAssumption, NEW token \in Token, NEW mode \in Modes, NEW source \in Nat,
         mode = "entry" => token[2] = 0, mode # "reuse",
         NEW x, x = NewExperience(token, 1, mode, source, NoPrompts, NoPrompts), NEW X
  PROVE  x \in Experience /\ Sound(x, X)
<1>1. /\ x.token = token /\ x.stage = 1 /\ x.mode = mode /\ x.answers = NoPrompts
  BY DEF NewExperience
<1>2. x \in Experience
  <2>1. 1 \in 1..Paying
    BY Drawable
  <2>2. NoPrompts \in [Questions -> Prompts \cup {None}]
    BY Drawable
  <2> QED BY <2>1, <2>2 DEF NewExperience, Experience
<1>3. \A q \in Questions : x.answers[q] = None /\ ~(q < x.stage)
  BY <1>1 DEF NoPrompts, Questions, InterviewAssumption
<1> QED BY <1>1, <1>2, <1>3 DEF Sound

(* A session begins.                                                         *)
LEMMA CreateKeeps ==
  ASSUME InterviewAssumption, IInv, NEW t \in Tabs, Create(t)
  PROVE  IInv' /\ GrowsTo(experiences, experiences')
<1>1. PICK r \in Request : r = req[t]
  BY Here
<1>2. /\ r.kind \in {"start", "restart"} /\ Fits("create", r, page[t], experiences)
      /\ tokens' = tokens + 1 /\ UNCHANGED <<active, cookie, page, losses>>
      /\ Goto(t, "assign")
  BY <1>1, Here DEF Create, At
<1>3. PICK x : x = NewExperience(FreshToken, 1, "entry", 0, NoPrompts, NoPrompts)
  OBVIOUS
<1>4. x \in Experience /\ Sound(x, experiences)
  BY <1>3, Fresh, BegunSound DEF Modes
<1>5. PICK Y : Y = Append(experiences, x)
  OBVIOUS
<1>6. /\ Y \in Seq(Experience) /\ GrowsTo(experiences, Y) /\ AllSound(Y)
      /\ Len(Y) = Len(experiences) + 1 /\ Len(experiences) \in Nat
  BY <1>4, <1>5, Here, RowAdded
<1>7. PICK n : n = Len(experiences) + 1
  OBVIOUS
<1>8. PICK token \in Token : token = FreshToken
  BY Fresh
<1>9. PICK w : w = [r EXCEPT !.id = n, !.reply = token, !.stage = 1]
  OBVIOUS
<1>10. n \in Nat /\ n \in 1..Len(Y) /\ 1 \in 1..Paying
  <2>1. 1 \in 1..Paying
    BY Drawable
  <2> QED BY <2>1, <1>6, <1>7
<1>11. w \in Request /\ w.id = n /\ w.kind = r.kind /\ w.old = r.old
  BY <1>8, <1>9, <1>10 DEF Request
<1>12. experiences' = Y
  BY <1>3, <1>5 DEF Create
<1>13. req' = [req EXCEPT ![t].id = n, ![t].reply = token, ![t].stage = 1]
  BY <1>7, <1>8 DEF Create
<1>14. req' = [req EXCEPT ![t] = w]
  BY <1>1, <1>9, <1>13, Here
<1>15. Fits("create", r, page[t], Y)
  BY <1>2, <1>6, Here, FitsGrows
<1>16. Fits("assign", w, page[t], Y)
  BY <1>2, <1>10, <1>11, <1>15, <1>6 DEF Fits, FitsStart, FitsRepeat, FitsRest
<1>17. tokens' \in Nat
  BY <1>2, Fresh
<1> QED BY <1>2, <1>6, <1>11, <1>12, <1>14, <1>16, <1>17, Writes DEF Steps

(* A row that is changed in the table, and keeps what it has.                *)
LEMMA RowWritten ==
  ASSUME InterviewAssumption, IInv, NEW e \in 1..Len(experiences), NEW y \in Experience,
         Kept(experiences[e], y), Sound(y, experiences)
  PROVE  \E Y \in Seq(Experience) :
           /\ Y = [experiences EXCEPT ![e] = y] /\ Len(Y) = Len(experiences)
           /\ GrowsTo(experiences, Y) /\ AllSound(Y) /\ Y[e] = y
<1>1. PICK X : X = experiences
  OBVIOUS
<1>2. /\ X \in Seq(Experience) /\ AllSound(X) /\ e \in 1..Len(X)
      /\ Kept(X[e], y) /\ Sound(y, X)
  BY <1>1 DEF IInv, InterviewTypeOK
<1>3. PICK Y : Y = [X EXCEPT ![e] = y]
  OBVIOUS
<1>4. /\ Y \in Seq(Experience) /\ Len(Y) = Len(X)
      /\ \A f \in 1..Len(X) : Y[f] = IF f = e THEN y ELSE X[f]
  BY <1>2, <1>3, ExceptSeq
<1>5. GrowsTo(X, Y) /\ AllSound(Y) /\ Y[e] = y
  BY <1>2, <1>4, RowChanged
<1> QED BY <1>1, <1>3, <1>4, <1>5

(* What follows the assignment relies on a set being there.                  *)
LEMMA After ==
  ASSUME NEW t \in Tabs, NEW r, r = req[t], NEW p, NEW Y, NEW s0 \in {"assign", "insert"},
         Fits(s0, r, p, Y), Drawn(r, Y), NEW set, NEW s, s = AfterAssignment(t, set)
  PROVE  s \in {"retire", "reply", "refused"} /\ Fits(s, r, p, Y)
<1>1. \/ s = "retire" /\ r.kind = "restart"
      \/ s = "refused"
      \/ s = "reply" /\ r.kind # "restart"
  BY DEF AfterAssignment
<1> QED BY <1>1 DEF Fits, FitsStart, FitsRepeat, FitsRest

(* The set is there, or one is drawn, or none can be.                        *)
LEMMA AssignKeeps ==
  ASSUME InterviewAssumption, IInv, NEW t \in Tabs, Assign(t)
  PROVE  IInv' /\ GrowsTo(experiences, experiences')
<1>1. PICK r \in Request : r = req[t]
  BY Here
<1>2. PICK e : e = r.id
  OBVIOUS
<1>3. /\ Fits("assign", r, page[t], experiences) /\ step[t] = "assign"
      /\ UNCHANGED <<dbVars, cookie, page, losses>>
  BY <1>1, Here DEF Assign
<1>4. e \in 1..Len(experiences) /\ experiences[e] \in Experience
  BY <1>2, <1>3, Here, Rows DEF Fits, FitsStart
<1>5. CASE Assigned(e) /\ Goto(t, AfterAssignment(t, experiences[e].prompts)) /\ UNCHANGED req
  <2>1. Drawn(r, experiences)
    BY <1>2, <1>4, <1>5 DEF Drawn, Assigned, Experience
  <2>2. PICK s : s = AfterAssignment(t, experiences[e].prompts)
    OBVIOUS
  <2>3. s \in {"retire", "reply", "refused"} /\ Fits(s, r, page[t], experiences)
    BY <1>1, <1>3, <2>1, <2>2, After
  <2>4. Goto(t, s) /\ req' = [req EXCEPT ![t] = r]
    BY <1>1, <1>5, <2>2, Here
  <2> QED BY <1>3, <2>3, <2>4, Goes DEF Steps
<1>6. CASE /\ \E chosen \in Candidates(t) : req' = [req EXCEPT ![t].chosen = chosen]
           /\ Goto(t, "insert")
  <2>1. PICK chosen \in Candidates(t) : req' = [req EXCEPT ![t].chosen = chosen]
    BY <1>6
  <2>2. chosen \in PromptSet
    BY DEF Candidates
  <2>3. PICK w : w = [r EXCEPT !.chosen = chosen]
    OBVIOUS
  <2>4. /\ w \in Request /\ w.chosen = chosen /\ w.id = r.id /\ w.kind = r.kind /\ w.old = r.old
        /\ w.prompt = r.prompt
    BY <2>2, <2>3 DEF Request
  <2>5. req' = [req EXCEPT ![t] = w]
    BY <1>1, <2>1, <2>3, Here
  <2>6. Fits("insert", w, page[t], experiences)
    BY <1>3, <2>2, <2>4 DEF Fits, FitsStart, FitsRepeat, FitsRest
  <2> QED BY <1>3, <1>6, <2>4, <2>5, <2>6, Goes DEF Steps
<1>7. CASE Goto(t, "refused") /\ UNCHANGED req
  BY <1>3, <1>7, Refused
<1>8. PICK x : x = experiences[e].prompts
  OBVIOUS
<1> QED BY <1>1, <1>2, <1>5, <1>6, <1>7 DEF Assign

(* The drawn set becomes the row's unless another was first.                 *)
LEMMA InsertKeeps ==
  ASSUME InterviewAssumption, IInv, NEW t \in Tabs, Insert(t)
  PROVE  IInv' /\ GrowsTo(experiences, experiences')
<1>1. PICK r \in Request : r = req[t]
  BY Here
<1>2. PICK e : e = r.id
  OBVIOUS
<1>3. Fits("insert", r, page[t], experiences) /\ UNCHANGED <<active, tokens, cookie, page, req, losses>>
  BY <1>1, Here DEF Insert
<1>4. e \in 1..Len(experiences) /\ r.chosen \in PromptSet
  BY <1>2, <1>3 DEF Fits, FitsStart
<1>5. PICK x \in Experience : x = experiences[e]
  BY <1>4, Here, Rows
<1>6. Sound(x, experiences)
  BY <1>4, <1>5, Here DEF AllSound
<1>7. PICK set \in PromptSet : set = IF x.prompts # NoPrompts THEN x.prompts ELSE r.chosen
  BY <1>4, <1>5 DEF Experience
<1>8. PICK y : y = [x EXCEPT !.prompts = set]
  OBVIOUS
<1>9. /\ y \in Experience /\ y.prompts = set /\ y.answers = x.answers /\ y.stage = x.stage
      /\ y.mode = x.mode /\ y.source = x.source /\ y.token = x.token
  BY <1>7, <1>8 DEF Experience
<1>10. Kept(experiences[e], y)
  BY <1>5, <1>7, <1>9 DEF Kept
<1>11. Sound(y, experiences)
  BY <1>6, <1>7, <1>9, Drawable DEF Sound, Full
<1>12. e \in 1..Len(experiences) /\ y \in Experience /\ Kept(experiences[e], y) /\ Sound(y, experiences)
  BY <1>4, <1>9, <1>10, <1>11
<1>13. PICK Y \in Seq(Experience) :
         /\ Y = [experiences EXCEPT ![e] = y] /\ Len(Y) = Len(experiences)
         /\ GrowsTo(experiences, Y) /\ AllSound(Y) /\ Y[e] = y
  BY <1>12, RowWritten
<1>14. experiences' = [experiences EXCEPT ![e].prompts = IF Assigned(e) THEN @ ELSE r.chosen]
  BY <1>1, <1>2 DEF Insert, InsertSet
<1>15. experiences' = Y
  BY <1>5, <1>7, <1>8, <1>13, <1>14 DEF Assigned
<1>16. Drawn(r, Y)
  BY <1>2, <1>4, <1>9, <1>13 DEF Drawn
<1>17. Fits("insert", r, page[t], Y)
  BY <1>3, <1>13, Here, FitsGrows
<1>18. PICK s : s = AfterAssignment(t, Y[e].prompts)
  OBVIOUS
<1>19. s \in {"retire", "reply", "refused"} /\ Fits(s, r, page[t], Y)
  BY <1>1, <1>16, <1>17, <1>18, After
<1>20. Goto(t, s)
  BY <1>1, <1>2, <1>15, <1>18 DEF Insert
<1>21. /\ req' = [req EXCEPT ![t] = r] /\ tokens' \in Nat
       /\ UNCHANGED <<active, cookie, page, losses>>
  BY <1>1, <1>3, Here, Fresh
<1> QED BY <1>13, <1>15, <1>19, <1>20, <1>21, Writes DEF Steps

(* A row whose token changes to a fresh one, or not at all.                  *)
LEMMA RotateRow ==
  ASSUME InterviewAssumption, IInv, NEW e \in 1..Len(experiences), NEW old,
         RotateIfCurrent(e, old, FreshToken)
  PROVE  \E Y \in Seq(Experience) :
           /\ experiences' = Y /\ Len(Y) = Len(experiences)
           /\ GrowsTo(experiences, Y) /\ AllSound(Y)
<1>1. PICK x \in Experience : x = experiences[e]
  BY Rows DEF IInv, InterviewTypeOK
<1>2. Sound(x, experiences)
  BY <1>1 DEF IInv, AllSound
<1>3. PICK token \in Token : token = IF x.token = old THEN FreshToken ELSE x.token
  BY <1>1, Fresh DEF Experience
<1>4. PICK y : y = [x EXCEPT !.token = token]
  OBVIOUS
<1>5. /\ y \in Experience /\ y.token = token /\ y.prompts = x.prompts /\ y.answers = x.answers
      /\ y.stage = x.stage /\ y.mode = x.mode /\ y.source = x.source
  BY <1>4 DEF Experience
<1>6. Kept(experiences[e], y)
  BY <1>1, <1>5 DEF Kept
<1>7. Sound(y, experiences)
  BY <1>2, <1>3, <1>5, Fresh DEF Sound, Full
<1>8. PICK Y \in Seq(Experience) :
         /\ Y = [experiences EXCEPT ![e] = y] /\ Len(Y) = Len(experiences)
         /\ GrowsTo(experiences, Y) /\ AllSound(Y) /\ Y[e] = y
  BY <1>5, <1>6, <1>7, RowWritten
<1>9. experiences' = Y
  BY <1>1, <1>3, <1>4, <1>8 DEF RotateIfCurrent
<1> QED BY <1>8, <1>9

(* The old session loses its token.                                          *)
LEMMA RetireKeeps ==
  ASSUME InterviewAssumption, IInv, NEW t \in Tabs, Retire(t)
  PROVE  IInv' /\ GrowsTo(experiences, experiences')
<1>1. PICK r \in Request : r = req[t]
  BY Here
<1>2. /\ Fits("retire", r, page[t], experiences) /\ tokens' = tokens + 1
      /\ RotateIfCurrent(r.old, r.token, FreshToken)
      /\ UNCHANGED <<active, cookie, page, req, losses>>
  BY <1>1, Here DEF Retire
<1>3. r.kind = "restart" /\ r.old \in 1..Len(experiences)
  BY <1>2 DEF Fits, FitsStart
<1>4. PICK Y \in Seq(Experience) :
        /\ experiences' = Y /\ Len(Y) = Len(experiences)
        /\ GrowsTo(experiences, Y) /\ AllSound(Y)
  BY <1>2, <1>3, RotateRow
<1>5. Fits("retire", r, page[t], Y)
  BY <1>2, <1>4, Here, FitsGrows
<1>6. Fits("reply", r, page[t], Y) /\ Fits("refused", r, page[t], Y)
  BY <1>3, <1>5 DEF Fits, FitsStart, FitsRepeat, FitsRest
<1>7. PICK s \in {"reply", "refused"} : Goto(t, s)
  BY DEF Retire
<1>8. /\ req' = [req EXCEPT ![t] = r] /\ tokens' \in Nat
      /\ UNCHANGED <<active, cookie, page, losses>>
  BY <1>1, <1>2, Here, Fresh
<1>9. Fits(s, r, page[t], Y)
  BY <1>6
<1> QED BY <1>4, <1>7, <1>8, <1>9, Writes DEF Steps

(* The paid session gets a new token.                                        *)
LEMMA RotateKeeps ==
  ASSUME InterviewAssumption, IInv, NEW t \in Tabs, Rotate(t)
  PROVE  IInv' /\ GrowsTo(experiences, experiences')
<1>1. PICK r \in Request : r = req[t]
  BY Here
<1>2. /\ Fits("rotate", r, page[t], experiences) /\ tokens' = tokens + 1
      /\ RotateIfCurrent(r.id, r.token, FreshToken)
      /\ UNCHANGED <<active, cookie, page, losses>>
  BY <1>1, Here DEF Rotate
<1>3. r.kind = "return" /\ r.id \in 1..Len(experiences)
  BY <1>2 DEF Fits, FitsRest
<1>4. PICK Y \in Seq(Experience) :
        /\ experiences' = Y /\ Len(Y) = Len(experiences)
        /\ GrowsTo(experiences, Y) /\ AllSound(Y)
  BY <1>2, <1>3, RotateRow
<1>5. PICK token \in Token : token = FreshToken
  BY Fresh
<1>6. PICK w : w = [r EXCEPT !.reply = token]
  OBVIOUS
<1>7. w \in Request /\ w.id = r.id /\ w.old = r.old /\ w.kind = "return"
  BY <1>3, <1>6 DEF Request
<1>8. Fits("rotate", r, page[t], Y)
  BY <1>2, <1>4, Here, FitsGrows
<1>9. Fits("reply", w, page[t], Y) /\ Fits("refused", w, page[t], Y)
  BY <1>7, <1>8 DEF Fits, FitsStart, FitsRepeat, FitsRest
<1>10. PICK s \in {"reply", "refused"} : Goto(t, s)
  BY DEF Rotate
<1>11. req' = [req EXCEPT ![t].reply = token]
  BY <1>5 DEF Rotate
<1>12. req' = [req EXCEPT ![t] = w] /\ tokens' \in Nat
  BY <1>1, <1>2, <1>6, <1>11, Here, Fresh
<1>13. Fits(s, w, page[t], Y)
  BY <1>9
<1> QED BY <1>2, <1>4, <1>7, <1>10, <1>12, <1>13, Writes DEF Steps

(* An answer and the next stage are stored together.                         *)
LEMMA SaveKeeps ==
  ASSUME InterviewAssumption, IInv, NEW t \in Tabs, Save(t)
  PROVE  IInv' /\ GrowsTo(experiences, experiences')
<1>1. PICK r \in Request : r = req[t]
  BY Here
<1>2. PICK e : e = r.id
  OBVIOUS
<1>3. PICK q \in Questions : q = r.question
  BY DEF Request
<1>4. /\ Fits("save", r, page[t], experiences) /\ step[t] = "save"
      /\ UNCHANGED <<active, tokens, cookie, page, req, losses>>
  BY <1>1, Here DEF Save
<1>5. e \in 1..Len(experiences) /\ r.prompt \in Prompts
  BY <1>2, <1>4 DEF Fits, FitsRest
<1>6. CASE ~Savable(e, q)
  <2>1. Goto(t, "refused") /\ UNCHANGED experiences
    BY <1>1, <1>2, <1>3, <1>6 DEF Save
  <2>2. UNCHANGED <<dbVars, cookie, page, req, losses>>
    BY <1>4, <2>1 DEF dbVars
  <2> QED BY <1>4, <2>1, <2>2, Refused
<1>7. CASE Savable(e, q)
  <2>1. PICK x \in Experience : x = experiences[e]
    BY <1>5, Here, Rows
  <2>2. Sound(x, experiences) /\ x.stage = q /\ x.answers[q] = None
    BY <1>5, <1>7, <2>1, Here DEF AllSound, Savable
  <2>3. PICK k \in 1..Paying : k = q + 1
    BY Drawable DEF Questions, InterviewAssumption
  <2>4. PICK as : as = [x.answers EXCEPT ![q] = r.prompt]
    OBVIOUS
  <2>5. /\ as \in [Questions -> Prompts \cup {None}]
        /\ as[q] = r.prompt
        /\ \A u \in Questions : u # q => as[u] = x.answers[u]
    BY <1>5, <2>1, <2>4 DEF Experience
  <2>6. PICK y : y = [x EXCEPT !.stage = k, !.answers = as]
    OBVIOUS
  <2>7. /\ y \in Experience /\ y.stage = k /\ y.answers = as /\ y.prompts = x.prompts
        /\ y.mode = x.mode /\ y.source = x.source /\ y.token = x.token
    BY <2>3, <2>5, <2>6 DEF Experience
  <2>8. Kept(experiences[e], y)
    BY <2>1, <2>2, <2>5, <2>7 DEF Kept
  <2>9. x.mode # "reuse"
    BY <2>2 DEF Sound, Full, InterviewAssumption
  <2>10. ASSUME NEW u \in Questions PROVE y.answers[u] # None <=> u < y.stage
    <3>1. CASE u = q
      <4>1. q < k
        BY <2>3 DEF Questions, InterviewAssumption
      <4>2. as[q] # None
        BY <1>5, <2>5 DEF InterviewAssumption
      <4> QED BY <2>7, <3>1, <4>1, <4>2
    <3>2. CASE u # q
      <4>1. x.answers[u] # None <=> u < q
        BY <2>2 DEF Sound
      <4>2. u < q <=> u < k
        BY <2>3, <3>2 DEF Questions, InterviewAssumption
      <4> QED BY <2>5, <2>7, <3>2, <4>1, <4>2
    <3> QED BY <3>1, <3>2
  <2>11. Sound(y, experiences)
    BY <2>2, <2>7, <2>9, <2>10 DEF Sound
  <2>12. PICK Y \in Seq(Experience) :
           /\ Y = [experiences EXCEPT ![e] = y] /\ Len(Y) = Len(experiences)
           /\ GrowsTo(experiences, Y) /\ AllSound(Y) /\ Y[e] = y
    BY <1>5, <2>7, <2>8, <2>11, RowWritten
  <2>13. /\ experiences' = [experiences EXCEPT ![e].stage = k, ![e].answers[q] = r.prompt]
         /\ Goto(t, "reply")
    BY <1>1, <1>2, <1>3, <1>7, <2>3 DEF Save, NextStage
  <2>14. y = [x EXCEPT !.stage = k, !.answers[q] = r.prompt]
    BY <2>4, <2>6 DEF Experience
  <2>15. experiences' = Y
    BY <2>1, <2>12, <2>13, <2>14
  <2>16. Fits("save", r, page[t], Y)
    BY <1>4, <2>12, Here, FitsGrows
  <2>17. Fits("reply", r, page[t], Y)
    BY <2>16 DEF Fits, FitsStart, FitsRepeat, FitsRest
  <2>18. /\ req' = [req EXCEPT ![t] = r] /\ tokens' \in Nat
         /\ UNCHANGED <<active, cookie, page, losses>>
    BY <1>1, <1>4, Here, Fresh
  <2> QED BY <2>12, <2>13, <2>15, <2>17, <2>18, Writes DEF Steps
<1> QED BY <1>6, <1>7

(* The payment starts, and every question has been answered.                 *)
LEMMA AdvanceKeeps ==
  ASSUME InterviewAssumption, IInv, NEW t \in Tabs, Advance(t)
  PROVE  IInv' /\ GrowsTo(experiences, experiences')
<1>1. PICK r \in Request : r = req[t]
  BY Here
<1>2. PICK e : e = r.id
  OBVIOUS
<1>3. /\ Fits("advance", r, page[t], experiences) /\ step[t] = "advance"
      /\ UNCHANGED <<active, tokens, cookie, page, req, losses>>
  BY <1>1, Here DEF Advance
<1>4. e \in 1..Len(experiences) /\ r.kind = "pay"
  BY <1>2, <1>3 DEF Fits, FitsRest
<1>5. CASE Goto(t, "refused") /\ UNCHANGED experiences
  <2>1. UNCHANGED <<dbVars, cookie, page, req, losses>>
    BY <1>3, <1>5 DEF dbVars
  <2> QED BY <1>3, <1>5, <2>1, Refused
<1>6. CASE /\ experiences[e].stage = Profile /\ Goto(t, "reply")
           /\ experiences' = [experiences EXCEPT ![e].stage = Paying]
  <2>1. PICK x \in Experience : x = experiences[e]
    BY <1>4, Here, Rows
  <2>2. Sound(x, experiences) /\ x.stage = Profile
    BY <1>4, <1>6, <2>1, Here DEF AllSound
  <2>3. PICK k \in 1..Paying : k = Paying /\ \A u \in Questions : u < k /\ u < Profile
    BY Drawable DEF Questions, InterviewAssumption, Profile, Paying
  <2>4. PICK y : y = [x EXCEPT !.stage = k]
    OBVIOUS
  <2>5. /\ y \in Experience /\ y.stage = k /\ y.answers = x.answers /\ y.prompts = x.prompts
        /\ y.mode = x.mode /\ y.source = x.source /\ y.token = x.token
    BY <2>4 DEF Experience
  <2>6. Kept(experiences[e], y)
    BY <2>1, <2>5 DEF Kept
  <2>7. Sound(y, experiences)
    BY <2>2, <2>3, <2>5 DEF Sound, Full
  <2>8. PICK Y \in Seq(Experience) :
          /\ Y = [experiences EXCEPT ![e] = y] /\ Len(Y) = Len(experiences)
          /\ GrowsTo(experiences, Y) /\ AllSound(Y) /\ Y[e] = y
    BY <1>4, <2>5, <2>6, <2>7, RowWritten
  <2>9. experiences' = Y
    BY <1>6, <2>1, <2>3, <2>4, <2>8
  <2>10. Fits("advance", r, page[t], Y)
    BY <1>3, <2>8, Here, FitsGrows
  <2>11. Fits("reply", r, page[t], Y)
    BY <2>10 DEF Fits, FitsStart, FitsRepeat, FitsRest
  <2>12. /\ req' = [req EXCEPT ![t] = r] /\ tokens' \in Nat
         /\ UNCHANGED <<active, cookie, page, losses>>
    BY <1>1, <1>3, Here, Fresh
  <2> QED BY <1>6, <2>8, <2>9, <2>11, <2>12, Writes DEF Steps
<1> QED BY <1>1, <1>2, <1>5, <1>6 DEF Advance

(* The child of a session whose checkout has started.                        *)
LEMMA ChildSound ==
  ASSUME InterviewAssumption, IInv, NEW e \in 1..Len(experiences), NEW mode \in {"reuse", "fresh"},
         NEW token \in Token, mode = "fresh" \/ Complete(e), NEW x, x = Child(e, token, mode)
  PROVE  x \in Experience /\ Sound(x, experiences) /\ x.mode = mode
<1>1. PICK source \in Experience : source = experiences[e]
  BY Rows DEF IInv, InterviewTypeOK
<1>2. e \in Nat
  BY LenProperties DEF IInv, InterviewTypeOK
<1>3. CASE mode = "fresh"
  <2>1. x = NewExperience(token, 1, "fresh", e, NoPrompts, NoPrompts)
    BY <1>3 DEF Child
  <2> QED BY <1>2, <1>3, <2>1, BegunSound DEF Modes, NewExperience
<1>4. CASE mode = "reuse"
  <2>1. x = NewExperience(token, Profile, "reuse", e, source.prompts, source.answers)
    BY <1>1, <1>4 DEF Child
  <2>2. /\ source.prompts \in PromptSet
        /\ \A q \in Questions : source.answers[q] \in Prompts
    BY <1>1, <1>4 DEF Complete, Assigned, Experience
  <2>3. Profile \in 1..Paying /\ \A q \in Questions : q < Profile
    BY Drawable DEF Questions, InterviewAssumption, Profile, Paying
  <2>4. /\ x.token = token /\ x.stage = Profile /\ x.mode = "reuse" /\ x.source = e
        /\ x.prompts = source.prompts /\ x.answers = source.answers
    BY <2>1 DEF NewExperience
  <2>5. x \in Experience
    BY <1>2, <2>1, <2>3 DEF NewExperience, Experience, Modes
  <2>6. \A q \in Questions : x.answers[q] # None /\ q < x.stage
    BY <2>2, <2>3, <2>4 DEF InterviewAssumption
  <2> QED BY <1>1, <1>4, <2>2, <2>4, <2>5, <2>6 DEF Sound, Full
<1> QED BY <1>3, <1>4

(* What follows the choice of a repeat.                                      *)
LEMMA ResolvedKeeps ==
  ASSUME InterviewAssumption, IInv, NEW t \in Tabs, NEW e, NEW mode \in {"reuse", "fresh"},
         NEW stage \in 1..Paying, step[t] = "resolve", Resolved(t, e, mode, stage),
         NEW Y \in Seq(Experience), GrowsTo(experiences, Y), AllSound(Y), experiences' = Y,
         e \in 1..Len(Y), UNCHANGED <<active, tokens, cookie, page, losses>>
  PROVE  IInv' /\ GrowsTo(experiences, experiences')
<1>1. PICK r \in Request : r = req[t]
  BY Here
<1>2. Fits("resolve", r, page[t], experiences)
  BY <1>1, Here
<1>3. r.kind = "repeat" /\ r.token \in Token
  BY <1>2 DEF Fits, FitsRepeat
<1>4. PICK token \in Token : token = DeriveNext(r.token)
  BY <1>3, Derived
<1>5. PICK w : w = [r EXCEPT !.id = e, !.mode = mode, !.stage = stage, !.reply = token]
  OBVIOUS
<1>6. e \in Nat /\ mode \in Modes
  BY LenProperties DEF Modes
<1>7. w \in Request /\ w.id = e /\ w.mode = mode /\ w.kind = "repeat" /\ w.old = r.old
  BY <1>3, <1>4, <1>5, <1>6 DEF Request
<1>8. req' = [req EXCEPT ![t].id = e, ![t].mode = mode, ![t].stage = stage, ![t].reply = token]
  BY <1>1, <1>4 DEF Resolved
<1>9. req' = [req EXCEPT ![t] = w]
  BY <1>1, <1>5, <1>8, Here
<1>10. PICK s : s = (IF mode = "fresh" THEN "assign" ELSE "reply") /\ Goto(t, s)
  BY DEF Resolved
<1>11. Fits("resolve", r, page[t], Y)
  BY <1>2, Here, FitsGrows
<1>12. Fits(s, w, page[t], Y)
  BY <1>7, <1>10, <1>11, LenProperties DEF Fits, FitsStart, FitsRepeat, FitsRest
<1>13. s \in Steps /\ tokens' \in Nat /\ UNCHANGED <<active, cookie, page, losses>>
  BY <1>10, Fresh DEF Steps
<1>14. Goto(t, s)
  BY <1>10
<1> QED BY <1>7, <1>9, <1>12, <1>13, <1>14, Writes

(* A repeat meets the child of an earlier one, or makes it.                  *)
LEMMA ResolveKeeps ==
  ASSUME InterviewAssumption, IInv, NEW t \in Tabs, Resolve(t)
  PROVE  IInv' /\ GrowsTo(experiences, experiences')
<1>1. PICK r \in Request : r = req[t]
  BY Here
<1>2. /\ Fits("resolve", r, page[t], experiences) /\ step[t] = "resolve"
      /\ UNCHANGED <<active, tokens, cookie, page, losses>>
  BY <1>1, Here DEF Resolve
<1>3. /\ r.mode \in {"reuse", "fresh"} /\ r.old \in 1..Len(experiences) /\ r.token \in Token
  BY <1>2 DEF Fits, FitsRepeat
<1>4. PICK token \in Token : token = DeriveNext(r.token) /\ token[2] # 0
  BY <1>3, Derived
<1>5. experiences \in Seq(Experience) /\ GrowsTo(experiences, experiences) /\ AllSound(experiences)
  BY Here, Rows
<1>6. ASSUME NEW e \in 1..Len(experiences), Holds(e, token), UNCHANGED experiences,
             Resolved(t, e, experiences[e].mode, experiences[e].stage)
      PROVE  IInv' /\ GrowsTo(experiences, experiences')
  <2>1. PICK x \in Experience : x = experiences[e]
    BY <1>5, Rows
  <2>2. x.mode \in {"reuse", "fresh"} /\ x.stage \in 1..Paying
    BY <1>4, <1>5, <1>6, <2>1 DEF AllSound, Sound, Holds, Experience, Modes
  <2>3. PICK Y : Y = experiences
    OBVIOUS
  <2>4. /\ Y \in Seq(Experience) /\ GrowsTo(experiences, Y) /\ AllSound(Y) /\ experiences' = Y
        /\ e \in 1..Len(Y) /\ Resolved(t, e, x.mode, x.stage)
    BY <1>5, <1>6, <2>1, <2>3
  <2> QED BY <1>2, <2>2, <2>4, ResolvedKeeps
<1>7. ASSUME r.mode = "fresh" \/ Complete(r.old),
             experiences' = Append(experiences, Child(r.old, token, r.mode)),
             Resolved(t, Len(experiences) + 1, r.mode, Child(r.old, token, r.mode).stage)
      PROVE  IInv' /\ GrowsTo(experiences, experiences')
  <2>1. PICK x : x = Child(r.old, token, r.mode)
    OBVIOUS
  <2>2. x \in Experience /\ Sound(x, experiences)
    BY <1>3, <1>7, <2>1, ChildSound
  <2>3. PICK Y : Y = Append(experiences, x)
    OBVIOUS
  <2>4. /\ Y \in Seq(Experience) /\ GrowsTo(experiences, Y) /\ AllSound(Y)
        /\ Len(Y) = Len(experiences) + 1 /\ Len(experiences) \in Nat
    BY <1>5, <2>2, <2>3, RowAdded, LenProperties
  <2>5. PICK e : e = Len(experiences) + 1
    OBVIOUS
  <2>6. e \in 1..Len(Y) /\ x.stage \in 1..Paying
    BY <2>2, <2>4, <2>5 DEF Experience
  <2>7. experiences' = Y /\ Resolved(t, e, r.mode, x.stage)
    BY <1>7, <2>1, <2>3, <2>5
  <2> QED BY <1>2, <1>3, <2>4, <2>6, <2>7, ResolvedKeeps
<1>8. CASE Goto(t, "refused") /\ UNCHANGED <<experiences, req>>
  <2>1. UNCHANGED <<dbVars, cookie, page, req, losses>>
    BY <1>2, <1>8 DEF dbVars
  <2> QED BY <1>2, <1>8, <2>1, Refused
<1> QED BY <1>1, <1>4, <1>6, <1>7, <1>8 DEF Resolve

-----------------------------------------------------------------------------
(* A tab without a request relies on nothing.                                *)
LEMMA IdleFits ==
  ASSUME InterviewAssumption, NEW X \in Seq(Experience), NEW p
  PROVE  NoRequest \in Request /\ Fits("idle", NoRequest, p, X)
<1>1. /\ NoRequest.id = 0 /\ NoRequest.old = 0 /\ NoRequest.kind = "start"
  BY DEF NoRequest
<1>2. 1 \in Questions /\ 1 \in 1..Paying
  BY Drawable
<1>3. NoRequest \in Request
  BY <1>2 DEF NoRequest, Request, Kinds, Modes
<1>4. Fits("idle", NoRequest, p, X)
  BY <1>1, LenProperties DEF Fits, FitsStart, FitsRepeat, FitsRest
<1> QED BY <1>3, <1>4

(* A bare page shows nothing that is stored.                                 *)
LEMMA BareShows ==
  ASSUME InterviewAssumption, NEW view \in {"error", "closed", "repeat", "profile"}, NEW X
  PROVE  Bare(view) \in Page /\ ShownOK(Bare(view), X)
<1>1. 1 \in 1..Paying
  BY Drawable
<1> QED BY <1>1 DEF Bare, Page, Views, ShownOK

(* The page of an interview whose prompts were drawn.                        *)
LEMMA InterviewShows ==
  ASSUME InterviewAssumption, IInv, NEW r \in Request, Drawn(r, experiences),
         NEW view \in {"interview", "resume"}, NEW k \in 1..Paying,
         view = "interview" => k \in Questions, NEW p, p = Interviewing(r, view, k)
  PROVE  p \in Page /\ ShownOK(p, experiences)
<1>1. /\ p.view = view /\ p.stage = k /\ p.id = r.id
      /\ p.prompts = experiences[r.id].prompts
  BY DEF Interviewing
<1>2. r.id \in 1..Len(experiences) /\ experiences[r.id].prompts \in PromptSet /\ r.id \in Nat
  BY DEF Drawn, Request
<1>3. p \in Page
  BY <1>2 DEF Interviewing, Page, Views
<1> QED BY <1>1, <1>2, <1>3 DEF ShownOK

(* What each route answers.                                                  *)
LEMMA RouteShows ==
  ASSUME InterviewAssumption, IInv, NEW t \in Tabs, step[t] = "reply"
  PROVE  \E p \in Page, c \in Token \cup {None} :
           /\ Response(t).page = p /\ Response(t).cookie = c /\ ShownOK(p, experiences)
<1>1. PICK r \in Request : r = req[t]
  BY Here
<1>2. PICK p0 \in Page : p0 = page[t]
  BY Here
<1>3. Fits("reply", r, p0, experiences) /\ ShownOK(p0, experiences)
  BY <1>1, <1>2, Here
<1>4. r.reply \in Token \cup {None} /\ r.stage \in 1..Paying
  BY DEF Request
<1>5. CASE r.kind = "start"
  <2>1. Response(t) = StartRoute(t)
    BY <1>1, <1>5, Zenon DEF Response
  <2>2. Drawn(r, experiences)
    BY <1>3, <1>5 DEF Fits, FitsStart
  <2>3. PICK entry : entry = Entry(r.stage)
    OBVIOUS
  <2>4. /\ entry \in {"repeat", "resume", "interview"}
        /\ entry = "interview" => r.stage \in Questions
    BY <1>4, <2>3, Drawable DEF Entry, Questions, InterviewAssumption
  <2>5. PICK p : p = IF entry = "repeat" THEN Bare(entry) ELSE Interviewing(r, entry, r.stage)
    OBVIOUS
  <2>6. p \in Page /\ ShownOK(p, experiences)
    <3>1. CASE entry = "repeat"
      BY <2>5, <3>1, BareShows
    <3>2. CASE entry # "repeat"
      BY <1>4, <2>2, <2>4, <2>5, <3>2, InterviewShows
    <3> QED BY <3>1, <3>2
  <2>7. PICK c : c = IF r.reply # r.token THEN r.reply ELSE None
    OBVIOUS
  <2>8. StartRoute(t).page = p /\ StartRoute(t).cookie = c
    BY <1>1, <2>3, <2>5, <2>7 DEF StartRoute
  <2>9. c \in Token \cup {None}
    BY <1>4, <2>7
  <2> QED BY <2>1, <2>6, <2>8, <2>9
<1>6. CASE r.kind = "restart"
  <2>1. Response(t) = RestartRoute(t)
    BY <1>1, <1>6, Zenon DEF Response
  <2>2. Drawn(r, experiences)
    BY <1>3, <1>6 DEF Fits, FitsStart
  <2>3. PICK p : p = Interviewing(r, "interview", 1)
    OBVIOUS
  <2>4. 1 \in Questions /\ 1 \in 1..Paying
    BY Drawable
  <2>5. p \in Page /\ ShownOK(p, experiences)
    BY <2>2, <2>3, <2>4, InterviewShows
  <2>6. RestartRoute(t).page = p /\ RestartRoute(t).cookie = r.reply
    BY <1>1, <2>3 DEF RestartRoute
  <2> QED BY <1>4, <2>1, <2>5, <2>6
<1>7. CASE r.kind = "repeat"
  <2>1. Response(t) = RepeatRoute(t)
    BY <1>1, <1>7, Zenon DEF Response
  <2>2. r.mode = "reuse" \/ Drawn(r, experiences)
    BY <1>3, <1>7 DEF Fits, FitsRepeat
  <2>3. PICK k : k = IF r.stage \in Questions THEN r.stage ELSE 1
    OBVIOUS
  <2>4. k \in Questions /\ k \in 1..Paying
    BY <1>4, <2>3, Drawable
  <2>5. PICK p : p = IF r.mode = "reuse" THEN Bare("profile") ELSE Interviewing(r, "interview", k)
    OBVIOUS
  <2>6. p \in Page /\ ShownOK(p, experiences)
    <3>1. CASE r.mode = "reuse"
      BY <2>5, <3>1, BareShows
    <3>2. CASE r.mode # "reuse"
      BY <2>2, <2>4, <2>5, <3>2, InterviewShows
    <3> QED BY <3>1, <3>2
  <2>7. RepeatRoute(t).page = p /\ RepeatRoute(t).cookie = r.reply
    BY <1>1, <2>3, <2>5 DEF RepeatRoute
  <2> QED BY <1>4, <2>1, <2>6, <2>7
<1>8. CASE r.kind = "answer"
  <2>1. Response(t) = AnswerRoute(t)
    BY <1>1, <1>8, Zenon DEF Response
  <2>2. p0.view = "interview" /\ p0.stage \in Questions /\ p0.prompts \in PromptSet
    BY <1>3, <1>8 DEF Fits, FitsRest, ShownOK
  <2>3. AnswerRoute(t).cookie = None
    BY DEF AnswerRoute
  <2>4. CASE p0.stage = QuestionCount
    <3>1. AnswerRoute(t).page = Bare("profile")
      BY <1>2, <2>4 DEF AnswerRoute
    <3> QED BY <2>1, <2>3, <3>1, BareShows
  <2>5. CASE p0.stage # QuestionCount
    <3>1. PICK k : k = p0.stage + 1
      OBVIOUS
    <3>2. k \in Questions /\ k \in 1..Paying
      BY <2>2, <2>5, <3>1, Drawable DEF Questions, InterviewAssumption
    <3>3. PICK p : p = [p0 EXCEPT !.stage = k]
      OBVIOUS
    <3>4. /\ p \in Page /\ p.stage = k /\ p.view = p0.view /\ p.id = p0.id
          /\ p.prompts = p0.prompts
      BY <3>2, <3>3 DEF Page
    <3>5. ShownOK(p, experiences)
      BY <1>3, <2>2, <3>2, <3>4 DEF ShownOK
    <3>6. AnswerRoute(t).page = p
      BY <1>2, <2>5, <3>1, <3>3 DEF AnswerRoute
    <3> QED BY <2>1, <2>3, <3>4, <3>5, <3>6
  <2> QED BY <2>4, <2>5
<1>9. CASE r.kind = "pay"
  <2>1. Response(t) = PayRoute(t)
    BY <1>1, <1>9, Zenon DEF Response
  <2>2. r.id \in 1..Len(experiences) /\ r.id \in Nat
    BY <1>3, <1>9 DEF Fits, FitsRest, Request
  <2>3. PICK p : p = [Bare("hosted") EXCEPT !.id = r.id]
    OBVIOUS
  <2>4. p.view = "hosted" /\ p.id = r.id /\ p.prompts = NoPrompts /\ p.stage = 1
    BY <2>3 DEF Bare
  <2>5. p \in Page
    <3>1. 1 \in 1..Paying
      BY Drawable
    <3> QED BY <2>2, <2>3, <3>1 DEF Bare, Page, Views
  <2>6. ShownOK(p, experiences)
    BY <2>2, <2>4 DEF ShownOK
  <2>7. PayRoute(t).page = p /\ PayRoute(t).cookie = None
    BY <1>1, <2>3 DEF PayRoute
  <2> QED BY <2>1, <2>5, <2>6, <2>7
<1>10. CASE r.kind = "return"
  <2>1. Response(t) = ReturnRoute(t)
    BY <1>1, <1>10, Zenon DEF Response
  <2>2. ReturnRoute(t).page = Bare("closed") /\ ReturnRoute(t).cookie = r.reply
    BY <1>1 DEF ReturnRoute
  <2> QED BY <1>4, <2>1, <2>2, BareShows
<1> QED BY <1>5, <1>6, <1>7, <1>8, <1>9, <1>10 DEF Request, Kinds

(* The response arrives.                                                     *)
LEMMA ReplyKeeps ==
  ASSUME InterviewAssumption, IInv, NEW t \in Tabs, Reply(t)
  PROVE  IInv' /\ GrowsTo(experiences, experiences')
<1>1. PICK p \in Page, c \in Token \cup {None} :
        Response(t).page = p /\ Response(t).cookie = c /\ ShownOK(p, experiences)
  BY RouteShows DEF Reply
<1>2. PICK Y : Y = experiences
  OBVIOUS
<1>3. /\ Y \in Seq(Experience) /\ GrowsTo(experiences, Y) /\ AllSound(Y) /\ ShownOK(p, Y)
  BY <1>1, <1>2, Here, Rows
<1>4. NoRequest \in Request /\ Fits("idle", NoRequest, p, Y) /\ "idle" \in Steps
  BY <1>3, IdleFits DEF Steps
<1>5. Moves(t, "idle", NoRequest, p)
  BY <1>1 DEF Reply, Turn, Goto, Moves
<1>6. /\ experiences' = Y /\ active' = active /\ tokens' \in Nat
      /\ cookie' \in Token \cup {None} /\ losses' \in Nat
  BY <1>1, <1>2 DEF Reply, dbVars, IInv, InterviewTypeOK
<1> QED BY <1>3, <1>4, <1>5, <1>6, TabStep

(* A request ends with an error.                                             *)
LEMMA FailKeeps ==
  ASSUME InterviewAssumption, IInv, NEW t \in Tabs, Fail(t), losses' \in Nat
  PROVE  IInv' /\ GrowsTo(experiences, experiences')
<1>1. PICK p : p = IF req[t].kind = "start" THEN Bare("error") ELSE page[t]
  OBVIOUS
<1>2. PICK Y : Y = experiences
  OBVIOUS
<1>3. Y \in Seq(Experience) /\ GrowsTo(experiences, Y) /\ AllSound(Y)
  BY <1>2, Here, Rows
<1>4. p \in Page /\ ShownOK(p, Y)
  <2>1. page[t] \in Page /\ ShownOK(page[t], Y)
    BY <1>2, Here
  <2>2. Bare("error") \in Page /\ ShownOK(Bare("error"), Y)
    BY BareShows
  <2> QED BY <1>1, <2>1, <2>2
<1>5. NoRequest \in Request /\ Fits("idle", NoRequest, p, Y) /\ "idle" \in Steps
  BY <1>3, IdleFits DEF Steps
<1>6. Moves(t, "idle", NoRequest, p)
  BY <1>1 DEF Fail, Turn, Goto, Moves
<1>7. /\ experiences' = Y /\ active' = active /\ tokens' \in Nat
      /\ cookie' \in Token \cup {None} /\ losses' \in Nat
  BY <1>2 DEF Fail, dbVars, IInv, InterviewTypeOK
<1> QED BY <1>3, <1>4, <1>5, <1>6, <1>7, TabStep

-----------------------------------------------------------------------------
(* A request that a tab sends fits its first statement.                      *)
LEMMA Sent ==
  ASSUME InterviewAssumption, IInv, NEW t \in Tabs, NEW r \in Request, Send(t, r),
         NEW p \in Page, page' = [page EXCEPT ![t] = p], ShownOK(p, experiences),
         r.old = 0, r.id = 0 \/ r.id \in 1..Len(experiences),
         r.kind = "return" => r.id # 0,
         r.kind = "repeat" => r.mode \in {"reuse", "fresh"},
         r.kind = "answer" => r.prompt \in Prompts /\ p.view = "interview"
  PROVE  IInv' /\ GrowsTo(experiences, experiences')
<1>1. PICK c \in Token \cup {None} : c = cookie
  BY DEF IInv, InterviewTypeOK
<1>2. PICK Y : Y = experiences
  OBVIOUS
<1>3. /\ Y \in Seq(Experience) /\ GrowsTo(experiences, Y) /\ AllSound(Y) /\ ShownOK(p, Y)
      /\ Len(Y) \in Nat
  BY <1>2, Here, Rows
<1>4. PICK w : w = [r EXCEPT !.token = c]
  OBVIOUS
<1>5. /\ w \in Request /\ w.id = r.id /\ w.old = r.old /\ w.kind = r.kind /\ w.mode = r.mode
      /\ w.prompt = r.prompt
  BY <1>4 DEF Request
<1>6. PICK s : s = First(r.kind)
  OBVIOUS
<1>7. /\ s \in {"create", "find", "rotate"} /\ s \in Steps
      /\ s = "create" => r.kind = "start"
      /\ s = "rotate" => r.kind = "return"
  BY <1>6 DEF First, Steps
<1>8. Fits(s, w, p, Y)
  BY <1>2, <1>3, <1>5, <1>7 DEF Fits, FitsStart, FitsRepeat, FitsRest
<1>9. Moves(t, s, w, p)
  BY <1>1, <1>4, <1>6 DEF Send, Goto, Moves
<1>10. /\ experiences' = Y /\ active' = active /\ tokens' \in Nat
       /\ cookie' \in Token \cup {None} /\ losses' \in Nat
  BY <1>2 DEF Send, dbVars, IInv, InterviewTypeOK
<1> QED BY <1>3, <1>5, <1>7, <1>8, <1>9, <1>10, TabStep

(* The requests of the buttons.                                              *)
LEMMA Buttons ==
  ASSUME InterviewAssumption
  PROVE  /\ NoRequest \in Request /\ NoRequest.id = 0 /\ NoRequest.old = 0
         /\ NoRequest.kind = "start"
BY IdleFits, EmptySeq DEF NoRequest

(* A tab is loaded.                                                          *)
LEMMA LoadKeeps ==
  ASSUME InterviewAssumption, IInv, NEW t \in Tabs, Load(t)
  PROVE  IInv' /\ GrowsTo(experiences, experiences')
<1>1. PICK p : p = Bare("closed")
  OBVIOUS
<1>2. p \in Page /\ ShownOK(p, experiences)
  BY <1>1, BareShows
<1>3. Send(t, NoRequest) /\ page' = [page EXCEPT ![t] = p]
  BY <1>1 DEF Load, Turn
<1> QED BY <1>2, <1>3, Buttons, Sent

(* A tab that offers to resume goes on.                                      *)
LEMMA ContinueKeeps ==
  ASSUME InterviewAssumption, IInv, NEW t \in Tabs, Continue(t)
  PROVE  IInv' /\ GrowsTo(experiences, experiences')
<1>1. PICK p0 \in Page : p0 = page[t]
  BY Here
<1>2. PICK r \in Request : r = req[t]
  BY Here
<1>3. PICK Y : Y = experiences
  OBVIOUS
<1>4. PICK p : p = IF p0.stage \in Questions THEN [p0 EXCEPT !.view = "interview"] ELSE Bare("profile")
  OBVIOUS
<1>5. /\ Y \in Seq(Experience) /\ GrowsTo(experiences, Y) /\ AllSound(Y)
      /\ ShownOK(p0, Y) /\ p0.view = "resume" /\ step[t] = "idle" /\ Fits("idle", r, p0, Y)
  BY <1>1, <1>2, <1>3, Here, Rows DEF Continue, Shows
<1>6. p \in Page /\ ShownOK(p, Y)
  <2>1. CASE p0.stage \in Questions
    <3>1. p \in Page /\ p.view = "interview" /\ p.stage = p0.stage /\ p.id = p0.id /\ p.prompts = p0.prompts
      BY <1>4, <2>1 DEF Page, Views
    <3> QED BY <1>5, <2>1, <3>1 DEF ShownOK
  <2>2. CASE p0.stage \notin Questions
    BY <1>4, <2>2, BareShows
  <2> QED BY <2>1, <2>2
<1>7. Fits("idle", r, p, Y)
  BY <1>5 DEF Fits, FitsStart, FitsRepeat, FitsRest
<1>8. Moves(t, "idle", r, p)
  <2>1. page' = [page EXCEPT ![t] = p]
    BY <1>1, <1>4 DEF Continue, Turn
  <2>2. step' = [step EXCEPT ![t] = "idle"] /\ req' = [req EXCEPT ![t] = r]
    BY <1>2, <1>5, Here DEF Continue, IInv, InterviewTypeOK
  <2> QED BY <2>1, <2>2 DEF Moves
<1>9. /\ experiences' = Y /\ active' = active /\ tokens' \in Nat
      /\ cookie' \in Token \cup {None} /\ losses' \in Nat /\ "idle" \in Steps
  BY <1>3 DEF Continue, dbVars, IInv, InterviewTypeOK, Steps
<1> QED BY <1>5, <1>6, <1>7, <1>8, <1>9, TabStep

(* A button that leaves the page as it is.                                   *)
LEMMA Pressed ==
  ASSUME InterviewAssumption, IInv, NEW t \in Tabs, NEW r \in Request, Send(t, r),
         UNCHANGED page, r.old = 0, r.id = 0, r.kind # "return",
         r.kind = "repeat" => r.mode \in {"reuse", "fresh"},
         r.kind = "answer" => r.prompt \in Prompts /\ page[t].view = "interview"
  PROVE  IInv' /\ GrowsTo(experiences, experiences')
<1>1. PICK p \in Page : p = page[t]
  BY Here
<1>2. page' = [page EXCEPT ![t] = p] /\ ShownOK(p, experiences)
  BY <1>1, Here DEF IInv, InterviewTypeOK
<1>3. r.kind = "answer" => r.prompt \in Prompts /\ p.view = "interview"
  BY <1>1
<1> QED BY <1>2, <1>3, Sent

(* START AGAIN is pressed.                                                   *)
LEMMA StartAgainKeeps ==
  ASSUME InterviewAssumption, IInv, NEW t \in Tabs, StartAgain(t)
  PROVE  IInv' /\ GrowsTo(experiences, experiences')
<1>1. PICK r : r = [NoRequest EXCEPT !.kind = "restart"]
  OBVIOUS
<1>2. r \in Request /\ r.kind = "restart" /\ r.id = 0 /\ r.old = 0
  BY <1>1, Buttons DEF Request, Kinds
<1>3. Send(t, r) /\ UNCHANGED page
  BY <1>1 DEF StartAgain
<1> QED BY <1>2, <1>3, Pressed

(* The shown prompt is answered.                                             *)
LEMMA AnswerKeeps ==
  ASSUME InterviewAssumption, IInv, NEW t \in Tabs, Answer(t)
  PROVE  IInv' /\ GrowsTo(experiences, experiences')
<1>1. PICK p \in Page : p = page[t]
  BY Here
<1>2. p.view = "interview" /\ ShownOK(p, experiences)
  BY <1>1, Here DEF Answer, Shows
<1>3. PICK q \in Questions : q = p.stage
  BY <1>2 DEF ShownOK
<1>4. PICK prompt \in Prompts : prompt = p.prompts[q]
  BY <1>2 DEF ShownOK, PromptSet
<1>5. PICK r : r = [NoRequest EXCEPT !.kind = "answer", !.question = q, !.prompt = prompt]
  OBVIOUS
<1>6. r \in Request /\ r.kind = "answer" /\ r.id = 0 /\ r.old = 0 /\ r.prompt \in Prompts
  BY <1>5, Buttons DEF Request, Kinds
<1>7. Send(t, r) /\ UNCHANGED page
  BY <1>1, <1>3, <1>4, <1>5 DEF Answer
<1> QED BY <1>1, <1>2, <1>6, <1>7, Pressed

(* A repeat is chosen.                                                       *)
LEMMA ChooseRepeatKeeps ==
  ASSUME InterviewAssumption, IInv, NEW t \in Tabs, NEW mode \in {"reuse", "fresh"},
         ChooseRepeat(t, mode)
  PROVE  IInv' /\ GrowsTo(experiences, experiences')
<1>1. PICK r : r = [NoRequest EXCEPT !.kind = "repeat", !.mode = mode]
  OBVIOUS
<1>2. r \in Request /\ r.kind = "repeat" /\ r.id = 0 /\ r.old = 0 /\ r.mode = mode
  BY <1>1, Buttons DEF Request, Kinds, Modes
<1>3. Send(t, r) /\ UNCHANGED page
  BY <1>1 DEF ChooseRepeat
<1> QED BY <1>2, <1>3, Pressed

(* The payment is started.                                                   *)
LEMMA PayKeeps ==
  ASSUME InterviewAssumption, IInv, NEW t \in Tabs, Pay(t)
  PROVE  IInv' /\ GrowsTo(experiences, experiences')
<1>1. PICK r : r = [NoRequest EXCEPT !.kind = "pay"]
  OBVIOUS
<1>2. r \in Request /\ r.kind = "pay" /\ r.id = 0 /\ r.old = 0
  BY <1>1, Buttons DEF Request, Kinds
<1>3. Send(t, r) /\ UNCHANGED page
  BY <1>1 DEF Pay
<1> QED BY <1>2, <1>3, Pressed

(* The browser returns from the payment page.                                *)
LEMMA ComeBackKeeps ==
  ASSUME InterviewAssumption, IInv, NEW t \in Tabs, ComeBack(t)
  PROVE  IInv' /\ GrowsTo(experiences, experiences')
<1>1. PICK p0 \in Page : p0 = page[t]
  BY Here
<1>2. p0.id \in 1..Len(experiences) /\ p0.id \in Nat /\ p0.id # 0
  BY <1>1, Here DEF ComeBack, Shows, ShownOK, Page
<1>3. PICK r : r = [NoRequest EXCEPT !.kind = "return", !.id = p0.id]
  OBVIOUS
<1>4. r \in Request /\ r.kind = "return" /\ r.id = p0.id /\ r.old = 0
  BY <1>2, <1>3, Buttons DEF Request, Kinds
<1>5. PICK p : p = Bare("closed")
  OBVIOUS
<1>6. p \in Page /\ ShownOK(p, experiences)
  BY <1>5, BareShows
<1>7. Send(t, r) /\ page' = [page EXCEPT ![t] = p]
  BY <1>1, <1>3, <1>5 DEF ComeBack, Turn
<1> QED BY <1>2, <1>4, <1>6, <1>7, Sent
-----------------------------------------------------------------------------
(* The rows change, and no tab moves.                                        *)
LEMMA OutsideStep ==
  ASSUME InterviewAssumption, IInv, NEW Y \in Seq(Experience), experiences' = Y,
         GrowsTo(experiences, Y), AllSound(Y), active' \subseteq Questions \X Prompts,
         UNCHANGED <<tokens, cookie, page, step, req, losses>>
  PROVE  IInv' /\ GrowsTo(experiences, experiences')
<1>1. ASSUME NEW u \in Tabs
      PROVE  ShownOK(page'[u], Y) /\ Fits(step'[u], req'[u], page'[u], Y)
  <2>1. ShownOK(page[u], experiences) /\ Fits(step[u], req[u], page[u], experiences)
    BY DEF IInv
  <2>2. PICK s1 : s1 = step[u]
    OBVIOUS
  <2>3. PICK r1 : r1 = req[u]
    OBVIOUS
  <2>4. PICK p1 : p1 = page[u]
    OBVIOUS
  <2>5. step'[u] = s1 /\ req'[u] = r1 /\ page'[u] = p1
    BY <2>2, <2>3, <2>4
  <2>6. ShownOK(p1, Y) /\ Fits(s1, r1, p1, Y)
    BY <2>1, <2>2, <2>3, <2>4, ShownGrows, FitsGrows DEF IInv, InterviewTypeOK
  <2> QED BY <2>5, <2>6
<1>2. \A u \in Tabs : req'[u].id \in 0..Len(Y) /\ req'[u].old \in 0..Len(Y)
  BY <1>1 DEF Fits
<1>3. InterviewTypeOK'
  BY <1>2 DEF IInv, InterviewTypeOK
<1> QED BY <1>1, <1>3 DEF IInv

(* A prompt is retired, and stays in the sets that have it.                  *)
LEMMA RetirePromptKeeps ==
  ASSUME InterviewAssumption, IInv, NEW q \in Questions, NEW p \in Prompts, RetirePrompt(q, p)
  PROVE  IInv' /\ GrowsTo(experiences, experiences')
<1>1. PICK Y : Y = experiences
  OBVIOUS
<1>2. /\ Y \in Seq(Experience) /\ experiences' = Y /\ GrowsTo(experiences, Y) /\ AllSound(Y)
      /\ active' \subseteq Questions \X Prompts
      /\ UNCHANGED <<tokens, cookie, page, step, req, losses>>
  BY <1>1, Rows DEF RetirePrompt, IInv, InterviewTypeOK
<1> QED BY <1>2, OutsideStep

(* Thirty days pass for a session.                                           *)
LEMMA ExpireKeeps ==
  ASSUME InterviewAssumption, IInv, NEW e \in 1..Len(experiences), Expire(e)
  PROVE  IInv' /\ GrowsTo(experiences, experiences')
<1>1. PICK x \in Experience : x = experiences[e]
  BY Rows DEF IInv, InterviewTypeOK
<1>2. Sound(x, experiences)
  BY <1>1 DEF IInv, AllSound
<1>3. PICK y : y = [x EXCEPT !.expired = TRUE]
  OBVIOUS
<1>4. /\ y \in Experience /\ y.token = x.token /\ y.prompts = x.prompts /\ y.answers = x.answers
      /\ y.stage = x.stage /\ y.mode = x.mode /\ y.source = x.source
  BY <1>3 DEF Experience
<1>5. Kept(experiences[e], y)
  BY <1>1, <1>4 DEF Kept
<1>6. Sound(y, experiences)
  BY <1>2, <1>4 DEF Sound, Full
<1>7. PICK Y \in Seq(Experience) :
         /\ Y = [experiences EXCEPT ![e] = y] /\ Len(Y) = Len(experiences)
         /\ GrowsTo(experiences, Y) /\ AllSound(Y) /\ Y[e] = y
  BY <1>4, <1>5, <1>6, RowWritten
<1>8. experiences' = Y
  BY <1>1, <1>3, <1>7 DEF Expire
<1>9. /\ active' \subseteq Questions \X Prompts
      /\ UNCHANGED <<tokens, cookie, page, step, req, losses>>
  BY DEF Expire, IInv, InterviewTypeOK
<1> QED BY <1>7, <1>8, <1>9, OutsideStep

(* Every step keeps the invariant, and the rows only grow.                   *)
LEMMA StepKeeps ==
  ASSUME InterviewAssumption, IInv, [Next]_vars
  PROVE  IInv' /\ GrowsTo(experiences, experiences')
<1>1. ASSUME NEW t \in Tabs, Server(t) PROVE IInv' /\ GrowsTo(experiences, experiences')
  <2>1. CASE Refuse(t)
    <3>1. Fail(t) /\ losses' \in Nat
      BY <2>1 DEF Refuse, IInv, InterviewTypeOK
    <3> QED BY <3>1, FailKeeps
  <2> QED BY <1>1, <2>1, FindForStartKeeps, FindForRestartKeeps, CreateKeeps, AssignKeeps,
             InsertKeeps, RetireKeeps, FindForAnswerKeeps, SaveKeeps, FindForRepeatKeeps,
             ResolveKeeps, FindForPayKeeps, AdvanceKeeps, RotateKeeps, ReplyKeeps DEF Server
<1>2. ASSUME NEW t \in Tabs, Customer(t) PROVE IInv' /\ GrowsTo(experiences, experiences')
  BY <1>2, LoadKeeps, ContinueKeeps, StartAgainKeeps, AnswerKeeps, ChooseRepeatKeeps, PayKeeps,
     ComeBackKeeps DEF Customer
<1>3. ASSUME NEW t \in Tabs, Lose(t) PROVE IInv' /\ GrowsTo(experiences, experiences')
  <2>1. Fail(t) /\ losses' \in Nat
    BY <1>3 DEF Lose, IInv, InterviewTypeOK
  <2> QED BY <2>1, FailKeeps
<1>4. ASSUME NEW q \in Questions, NEW p \in Prompts, RetirePrompt(q, p)
      PROVE  IInv' /\ GrowsTo(experiences, experiences')
  BY <1>4, RetirePromptKeeps
<1>5. ASSUME NEW e \in 1..Len(experiences), Expire(e)
      PROVE  IInv' /\ GrowsTo(experiences, experiences')
  BY <1>5, ExpireKeeps
<1>6. CASE UNCHANGED vars
  <2>1. PICK Y : Y = experiences
    OBVIOUS
  <2>2. /\ Y \in Seq(Experience) /\ experiences' = Y /\ GrowsTo(experiences, Y) /\ AllSound(Y)
        /\ active' \subseteq Questions \X Prompts
        /\ UNCHANGED <<tokens, cookie, page, step, req, losses>>
    BY <1>6, <2>1, Rows DEF vars, dbVars, IInv, InterviewTypeOK
  <2> QED BY <2>2, OutsideStep
<1> QED BY <1>1, <1>2, <1>3, <1>4, <1>5, <1>6 DEF Next

(* There is nothing at first.                                                *)
LEMMA InitHolds ==
  ASSUME InterviewAssumption, Init
  PROVE  IInv
<1>1. experiences \in Seq(Experience) /\ Len(experiences) = 0
  BY EmptySeq DEF Init
<1>2. Bare("closed") \in Page /\ ShownOK(Bare("closed"), experiences)
  BY BareShows
<1>3. ASSUME NEW p PROVE NoRequest \in Request /\ Fits("idle", NoRequest, p, experiences)
  BY <1>1, IdleFits
<1>4. NoRequest.id = 0 /\ NoRequest.old = 0
  BY DEF NoRequest
<1>5. InterviewTypeOK
  BY <1>1, <1>2, <1>3, <1>4 DEF Init, InterviewTypeOK, Steps
<1> QED BY <1>1, <1>2, <1>3, <1>5 DEF Init, IInv, AllSound

(* The inductive invariant: the rows are sound, and the pages and requests   *)
(* of all tabs fit them.                                                     *)
THEOREM Invariant ==
  ASSUME InterviewAssumption
  PROVE  Spec => []IInv
<1>1. Init => IInv
  BY InitHolds
<1>2. IInv /\ [Next]_vars => IInv'
  BY StepKeeps
<1> QED BY <1>1, <1>2, PTL DEF Spec

(* What the code keeps of an interview, for every number of tabs and of      *)
(* questions: the stage tells how far the answers go, a reused profile is    *)
(* its source's, a tab shows the prompts that are stored, and neither those  *)
(* nor the answers ever change.                                              *)
THEOREM InterviewKept ==
  ASSUME InterviewAssumption
  PROVE  Spec => InterviewIsKept
<1>1. IInv => InterviewTypeOK /\ AnswersMatchStage /\ ReuseIsCopied /\ ShownIsStored
  <2> SUFFICES ASSUME IInv
               PROVE  InterviewTypeOK /\ AnswersMatchStage /\ ReuseIsCopied /\ ShownIsStored
    OBVIOUS
  <2>1. \A e \in Ids : Sound(experiences[e], experiences)
    BY DEF IInv, AllSound, Ids
  <2>2. AnswersMatchStage
    BY <2>1 DEF AnswersMatchStage, Sound, Answered, Stage
  <2>3. ReuseIsCopied
    BY <2>1 DEF ReuseIsCopied, Sound
  <2>4. ShownIsStored
    BY DEF IInv, ShownOK, ShownIsStored
  <2> QED BY <2>2, <2>3, <2>4 DEF IInv
<1>2. IInv /\ [Next]_vars => [NothingReshuffled]_vars
  <2> SUFFICES ASSUME IInv, [Next]_vars PROVE NothingReshuffled
    OBVIOUS
  <2>1. GrowsTo(experiences, experiences')
    BY StepKeeps
  <2>2. ASSUME NEW e \in Ids PROVE Kept(experiences[e], experiences'[e])
    BY <2>1 DEF GrowsTo, Ids
  <2> QED BY <2>2 DEF NothingReshuffled, Kept, Assigned, Answered
<1> QED BY <1>1, <1>2, Invariant, PTL DEF Spec, InterviewIsKept
=============================================================================
