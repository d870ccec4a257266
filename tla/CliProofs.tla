------------------------------ MODULE CliProofs ------------------------------
(***************************************************************************)
(* Theorems about Cli, for every set of agents and calls and recordings of *)
(* any length: first the lemmas about ToolCalls, consent and the shared    *)
(* file, then recordings, meetings and utterances, and the theorems.       *)
(*                                                                         *)
(* What is in the file of a recording is only known together with where    *)
(* the callback is; what a folder holds, with where the program is.        *)
(***************************************************************************)
EXTENDS Cli, FiniteSetTheorems, TLAPS

-----------------------------------------------------------------------------
(* Tool calls.                                                             *)

(* A call edits only as an edit, and a file that is open exists under its  *)
(* name until a command removes it.                                        *)
StageFits ==
    \A a \in Agents : /\ stage[a] = "edited" => call[a].tool = "edit_file"
                      /\ stage[a] = "opened" => exists

(* GatedRunsAreGranted, and as much of mails: what lets the call of a pass. *)
MayRun(a) ==
    IF a \in Attended THEN yes[a] \/ call[a].tool \in said[a]
                      ELSE risk[a] = "reversible" /\ call[a].tool \in Listed

RunsAreGranted ==
    \A a \in Agents : stage[a] \notin {"idle", "asking"} /\ risk[a] # "read_only"
                         => MayRun(a)

(* The manager remembers only what its own user has said. *)
GrantsWereSaid == \A a \in Agents : sessionAllowed[a] \subseteq said[a]

(* A write that was classified as harmless is of a file that was made since. *)
RiskIsKnown ==
    \A a \in Agents :
        (/\ stage[a] # "idle" /\ exists
         /\ call[a].tool = "write_file" /\ call[a].inside)
            => risk[a] = "destructive" \/ made[a]

File == [exists |-> exists, text |-> text]

(* As long as the calls took effect one by one, at most one is at work on  *)
(* the file, and its buffer is what the file is to hold next.              *)
EditIsPending(a) ==
    /\ exists /\ call[a].tool = "edit_file"
    /\ Matches(text, call[a].old)
    /\ buffer[a] = Replaced(text, call[a].old, call[a].new)

FileIsMeant(m) ==
    /\ (\A a \in Agents : ~InFile(a)) => m = File
    /\ \A a \in Agents : InFile(a) =>
          /\ \A b \in Agents \ {a} : ~InFile(b)
          /\ stage[a] # "unlinked"
          /\ stage[a] = "edited" => m = File /\ EditIsPending(a)
          /\ stage[a] = "opened" =>
                /\ exists /\ text = << >> /\ Fits(call[a], m)
                /\ buffer[a] = After(call[a], m.text)

FileIsAccountedFor == apart => \E m \in meant : FileIsMeant(m)

ToolInv == /\ ToolTypeOK /\ StageFits /\ RunsAreGranted /\ GrantsWereSaid
           /\ RiskIsKnown /\ FileIsAccountedFor

ToolStep(a) == CallStep(a) \/ Dies(a)

-----------------------------------------------------------------------------
(* Lemmas about the operators.                                             *)

Risks == {"read_only", "reversible", "destructive"}

(* A risk is one of the three, and that of a write is as the file is now.  *)
LEMMA RiskTyped ==
  ASSUME NEW c
  PROVE  /\ RiskOf(c) \in Risks
         /\ c.tool = "write_file" => RiskOf(c) = WriteRisk(c.inside)
<1>1. WriteRisk(c.inside) \in Risks /\ CommandRisk(c.listed) \in Risks
  BY DEF WriteRisk, CommandRisk, Risks
<1>2. FixedRisk(c.tool) \in Risks
  BY Zenon DEF FixedRisk, Risks
<1> QED
  BY <1>1, <1>2, Zenon DEF RiskOf

(* The content of a write is a text. *)
LEMMA ContentTyped ==
  ASSUME NEW c \in Calls, c.tool = "write_file"
  PROVE  c.content \in Seq(Pieces)
<1> DEFINE S == {c.content[i] : i \in DOMAIN c.content}
<1>1. c.content \in Seq(S)
  BY CallsAssumption
<1>2. S \subseteq Pieces
  BY DEF Pieces, PiecesOf
<1> HIDE DEF S
<1> QED
  BY <1>1, <1>2

(* Replacing pieces keeps a text a text. *)
LEMMA ReplacedTyped ==
  ASSUME NEW c \in Calls, c.tool = "edit_file", NEW t \in Seq(Pieces)
  PROVE  Replaced(t, c.old, c.new) \in Seq(Pieces)
<1>1. c.new \in Pieces
  BY DEF Pieces, PiecesOf
<1> QED
  BY <1>1 DEF Replaced

(* Where the old piece occurs once, an edit fits, and replacing the piece  *)
(* is what it is to do.                                                    *)
LEMMA EditIsReplacement ==
  ASSUME NEW c, c.tool = "edit_file", NEW t \in Seq(Pieces), Matches(t, c.old)
  PROVE  /\ After(c, t) = Replaced(t, c.old, c.new)
         /\ Fits(c, [exists |-> TRUE, text |-> t])
<1>1. IsFiniteSet(DOMAIN t)
  BY FS_Interval DEF Occurrences
<1>2. IsFiniteSet(Occurrences(t, c.old))
  BY <1>1, FS_Subset DEF Occurrences
<1>3. PICK i : Occurrences(t, c.old) = {i}
  BY <1>2, FS_Singleton DEF Matches
<1>4. \A j \in DOMAIN t : t[j] = c.old <=> Occurrences(t, c.old) = {j}
  BY <1>3 DEF Occurrences
<1>5. After(c, t) = Replaced(t, c.old, c.new)
  BY <1>4 DEF After, Replaced
<1>6. i \in DOMAIN t
  BY <1>3 DEF Occurrences
<1> QED
  BY <1>3, <1>5, <1>6 DEF Fits

(* Writing from the start of an empty file leaves the buffer. *)
LEMMA FillOfEmpty ==
  ASSUME NEW t \in Seq(Pieces)
  PROVE  t \o SubSeq(<< >>, Len(t) + 1, Len(<< >>)) = t
<1>1. SubSeq(<< >>, Len(t) + 1, Len(<< >>)) = << >>
  OBVIOUS
<1> QED
  BY <1>1

-----------------------------------------------------------------------------
(* Type correctness.                                                       *)

(* The process that dies, and the call that ends, leave nothing untyped. *)
LEMMA ForgottenTyped ==
  ASSUME ToolTypeOK, NEW a \in Agents, Forgotten(a)
  PROVE  /\ call' \in [Agents -> Calls \cup {NoCall}]
         /\ risk' \in [Agents -> Risks]
         /\ buffer' \in [Agents -> Seq(Pieces)]
         /\ {yes', made'} \subseteq [Agents -> BOOLEAN]
<1>1. << >> \in Seq(Pieces)
  OBVIOUS
<1> QED
  BY <1>1 DEF ToolTypeOK, Forgotten, Risks

(* Every step of an agent keeps the type of every variable. *)
LEMMA TypeKept ==
  ASSUME ToolTypeOK, StageFits, NEW a \in Agents, ToolStep(a)
  PROVE  ToolTypeOK'
<1> USE DEF ToolTypeOK, Stages, Goes, Expect, callVars, consentVars, fileVars
<1>1. ASSUME NEW c \in Calls, Execute(a, c) PROVE ToolTypeOK'
  BY <1>1, RiskTyped DEF Execute, Risks
<1>2. CASE Denied(a)
  BY <1>2, ForgottenTyped DEF Denied, Risks
<1>3. CASE Policy(a)
  BY <1>3, <1>2 DEF Policy
<1>4. CASE AllowedBefore(a)
  BY <1>4 DEF AllowedBefore
<1>5. CASE AnswerYes(a)
  BY <1>5 DEF AnswerYes
<1>6. CASE AnswerAlways(a)
  <2>1. call[a].tool \in Tools /\ a \in Attended
    BY <1>6 DEF AnswerAlways, Asks, Tools
  <2>2. {sessionAllowed', said'} \subseteq [Agents -> SUBSET Tools]
    BY <1>6, <2>1 DEF AnswerAlways
  <2>3. \A b \in Agents : sessionAllowed'[b] # {} => b \in Attended
    BY <1>6, <2>1 DEF AnswerAlways
  <2> QED
    BY <1>6, <2>2, <2>3 DEF AnswerAlways
<1>7. CASE AnswerNo(a)
  BY <1>7, <1>2 DEF AnswerNo
<1>8. CASE ReadToEdit(a)
  <2>1. call[a] \in Calls
    BY <1>8 DEF ReadToEdit, NoCall
  <2>2. Replaced(text, call[a].old, call[a].new) \in Seq(Pieces)
    BY <1>8, <2>1, ReplacedTyped DEF ReadToEdit
  <2> QED
    BY <1>8, <2>2 DEF ReadToEdit
<1>9. CASE Open(a)
  <2>1. call[a].tool = "write_file" => call[a].content \in Seq(Pieces)
    BY ContentTyped DEF NoCall
  <2>2. buffer' \in [Agents -> Seq(Pieces)]
    BY <1>9, <2>1 DEF Open
  <2>3. << >> \in Seq(Pieces)
    OBVIOUS
  <2> QED
    BY <1>9, <2>2, <2>3 DEF Open
<1>10. CASE Fill(a)
  <2>1. text' \in Seq(Pieces)
    BY <1>10 DEF Fill
  <2>2. exists' = exists /\ (~exists' => text' = << >>)
    BY <1>10 DEF Fill, StageFits
  <2> QED
    BY <1>10, <2>1, <2>2, ForgottenTyped DEF Fill, Risks
<1>11. CASE Remove(a)
  <2>1. << >> \in Seq(Pieces)
    OBVIOUS
  <2>2. /\ stage' \in [Agents -> Stages] /\ exists' \in BOOLEAN
        /\ text' \in Seq(Pieces) /\ (~exists' => text' = << >>)
        /\ apart' \in BOOLEAN
    BY <1>11, <2>1 DEF Remove
  <2>3. Forgotten(a) /\ UNCHANGED consentVars
    BY <1>11 DEF Remove
  <2> QED
    BY <2>2, <2>3, ForgottenTyped DEF Risks
<1>12. CASE Return(a)
  BY <1>12, ForgottenTyped DEF Return, Risks
<1>13. CASE Dies(a)
  BY <1>13, ForgottenTyped DEF Dies, GrantsAfter, Risks
<1> QED
  BY <1>1, <1>2, <1>3, <1>4, <1>5, <1>6, <1>7, <1>8, <1>9, <1>10, <1>11,
     <1>12, <1>13 DEF ToolStep, CallStep

(* An edit stays an edit, and an open file there, whatever others remove. *)
LEMMA StageKept ==
  ASSUME ToolTypeOK, StageFits, NEW a \in Agents, ToolStep(a)
  PROVE  StageFits'
<1> USE DEF ToolTypeOK, StageFits, Goes, Forgotten, callVars
<1>1. CASE Open(a)
  BY <1>1 DEF Open
<1>2. CASE Remove(a)
  BY <1>2 DEF Remove
<1>3. CASE \/ \E c \in Calls : Execute(a, c)
           \/ Policy(a) \/ AllowedBefore(a)
           \/ AnswerYes(a) \/ AnswerAlways(a) \/ AnswerNo(a)
  BY <1>3 DEF Execute, Policy, AllowedBefore, AnswerYes, AnswerAlways,
              AnswerNo, Denied, fileVars
<1>4. CASE ReadToEdit(a) \/ Return(a)
  BY <1>4 DEF ReadToEdit, Return, fileVars
<1>5. CASE Fill(a) \/ Dies(a)
  <2>1. /\ stage' = [stage EXCEPT ![a] = "idle"]
        /\ call' = [call EXCEPT ![a] = NoCall] /\ exists' = exists
    BY <1>5 DEF Fill, Dies
  <2> QED
    BY <2>1
<1> QED
  BY <1>1, <1>2, <1>3, <1>4, <1>5 DEF ToolStep, CallStep

-----------------------------------------------------------------------------
(* Consent.                                                                *)

(* CliConsent adds to its grants only with an answer, and loses them with  *)
(* its process.                                                            *)
LEMMA SaidKept ==
  ASSUME ToolTypeOK, GrantsWereSaid, NEW a \in Agents, ToolStep(a)
  PROVE  GrantsWereSaid'
<1> USE DEF ToolTypeOK, GrantsWereSaid, consentVars
<1>1. CASE AnswerAlways(a)
  BY <1>1 DEF AnswerAlways
<1>2. CASE Dies(a)
  BY <1>2 DEF Dies, GrantsAfter
<1>3. CASE \/ \E c \in Calls : Execute(a, c)
           \/ Policy(a) \/ AllowedBefore(a) \/ AnswerYes(a) \/ AnswerNo(a)
  BY <1>3 DEF Execute, Policy, AllowedBefore, AnswerYes, AnswerNo, Denied
<1>4. CASE ReadToEdit(a) \/ Open(a) \/ Fill(a) \/ Remove(a) \/ Return(a)
  BY <1>4 DEF ReadToEdit, Open, Fill, Remove, Return
<1> QED
  BY <1>1, <1>2, <1>3, <1>4 DEF ToolStep, CallStep

(* Every way past the consent manager is a grant for that very call. *)
LEMMA GrantsKept ==
  ASSUME ToolTypeOK, GrantsWereSaid, RunsAreGranted,
         NEW a \in Agents, ToolStep(a)
  PROVE  RunsAreGranted'
<1> DEFINE Gated(b) == stage[b] \notin {"idle", "asking"} /\ risk[b] # "read_only"
<1> SUFFICES ASSUME NEW b \in Agents, Gated(b)' PROVE MayRun(b)'
  BY DEF RunsAreGranted, MayRun
<1>1. Gated(b) => MayRun(b)
  BY DEF RunsAreGranted, MayRun
<1> USE DEF ToolTypeOK, Goes, callVars, consentVars, Forgotten, MayRun
<1>2. ASSUME NEW c \in Calls, Execute(a, c) PROVE MayRun(b)'
  BY <1>1, <1>2, RiskTyped DEF Execute, Risks
<1>3. CASE Denied(a)
  BY <1>1, <1>3 DEF Denied
<1>4. CASE Policy(a)
  BY <1>1, <1>3, <1>4 DEF Policy, PolicyAllows
<1>5. CASE AllowedBefore(a)
  BY <1>1, <1>5 DEF AllowedBefore, GrantsWereSaid
<1>6. CASE AnswerYes(a)
  BY <1>1, <1>6 DEF AnswerYes, Asks
<1>7. CASE AnswerAlways(a)
  BY <1>1, <1>7 DEF AnswerAlways, Asks
<1>8. CASE AnswerNo(a)
  BY <1>3, <1>8 DEF AnswerNo
<1>9. CASE ReadToEdit(a) \/ Return(a)
  BY <1>1, <1>9 DEF ReadToEdit, Return
<1>10. CASE Open(a)
  BY <1>1, <1>10 DEF Open
<1>11. CASE Fill(a) \/ Dies(a)
  BY <1>1, <1>11 DEF Fill, Dies
<1>12. CASE Remove(a)
  BY <1>1, <1>12 DEF Remove
<1> QED
  BY <1>2, <1>3, <1>4, <1>5, <1>6, <1>7, <1>8, <1>9, <1>10, <1>11, <1>12
     DEF ToolStep, CallStep

(* What was classified stays so while consent is waited for. *)
LEMMA RiskKept ==
  ASSUME ToolTypeOK, RiskIsKnown, NEW a \in Agents, ToolStep(a)
  PROVE  RiskIsKnown'
<1> USE DEF ToolTypeOK, RiskIsKnown, Goes, callVars, fileVars, Forgotten
<1>1. ASSUME NEW c \in Calls, Execute(a, c) PROVE RiskIsKnown'
  BY <1>1, RiskTyped DEF Execute, WriteRisk, Risks
<1>2. CASE Denied(a)
  BY <1>2 DEF Denied
<1>3. CASE Policy(a) \/ AllowedBefore(a) \/ AnswerNo(a)
  BY <1>2, <1>3 DEF Policy, AllowedBefore, AnswerNo
<1>4. CASE AnswerYes(a)
  BY <1>4 DEF AnswerYes
<1>5. CASE AnswerAlways(a)
  BY <1>5 DEF AnswerAlways
<1>6. CASE ReadToEdit(a) \/ Return(a)
  BY <1>6 DEF ReadToEdit, Return
<1>7. CASE Open(a)
  BY <1>7 DEF Open
<1>8. CASE Fill(a) \/ Dies(a)
  BY <1>8 DEF Fill, Dies
<1>9. CASE Remove(a)
  BY <1>9 DEF Remove
<1> QED
  BY <1>1, <1>2, <1>3, <1>4, <1>5, <1>6, <1>7, <1>8, <1>9 DEF ToolStep, CallStep

-----------------------------------------------------------------------------
(* The file.                                                               *)

(* A step of a outside of its file tool changes nothing the file is about. *)
LEMMA FileKeptOutside ==
  ASSUME FileIsAccountedFor, NEW a \in Agents, UNCHANGED fileVars,
         ~InFile(a), ~InFile(a)',
         \A b \in Agents \ {a} :
            stage'[b] = stage[b] /\ call'[b] = call[b] /\ buffer'[b] = buffer[b]
  PROVE  FileIsAccountedFor'
<1> SUFFICES ASSUME apart PROVE \E m \in meant : FileIsMeant(m)'
  BY DEF FileIsAccountedFor, fileVars
<1>1. PICK m \in meant : FileIsMeant(m)
  BY DEF FileIsAccountedFor
<1>2. \A b \in Agents : InFile(b)' <=> InFile(b)
  BY DEF InFile
<1>3. exists' = exists /\ text' = text /\ File' = File
  BY DEF fileVars, File
<1>4. \A b \in Agents : InFile(b) => (EditIsPending(b) => EditIsPending(b)')
  BY <1>3 DEF EditIsPending
<1>5. FileIsMeant(m)'
  BY <1>1, <1>2, <1>3, <1>4 DEF FileIsMeant
<1> QED
  BY <1>5

(* When a is the first in the file, the file is one that it may be. *)
LEMMA FirstInFile ==
  ASSUME FileIsAccountedFor, apart, NEW a \in Agents, ~InFile(a), ~Overlaps(a)
  PROVE  File \in meant
<1>1. \A b \in Agents : ~InFile(b)
  BY DEF Overlaps
<1> QED
  BY <1>1 DEF FileIsAccountedFor, FileIsMeant

(* An edit reads the file as it may be. *)
LEMMA FileKeptByRead ==
  ASSUME ToolTypeOK, FileIsAccountedFor, NEW a \in Agents, ReadToEdit(a)
  PROVE  FileIsAccountedFor'
<1> SUFFICES ASSUME apart' PROVE \E m \in meant' : FileIsMeant(m)'
  BY DEF FileIsAccountedFor
<1>1. apart /\ ~Overlaps(a) /\ meant' = meant
  BY DEF ReadToEdit, Expect, ToolTypeOK
<1>2. ~InFile(a)
  BY DEF ReadToEdit, Goes, InFile
<1>3. File \in meant' /\ File' = File
  BY <1>1, <1>2, FirstInFile DEF ReadToEdit, File
<1>4. /\ stage'[a] = "edited"
      /\ \A b \in Agents \ {a} : ~InFile(b)'
  BY <1>1 DEF ReadToEdit, Goes, InFile, Overlaps, ToolTypeOK
<1>5. EditIsPending(a)'
  BY DEF ReadToEdit, EditIsPending, ToolTypeOK
<1>6. InFile(a)'
  BY <1>4 DEF InFile
<1>7. FileIsMeant(File)'
  BY <1>3, <1>4, <1>5, <1>6 DEF FileIsMeant
<1> QED
  BY <1>3, <1>7

(* An open file is empty, and the buffer is what it will hold. *)
LEMMA FileKeptByOpen ==
  ASSUME ToolTypeOK, FileIsAccountedFor, NEW a \in Agents, Open(a)
  PROVE  FileIsAccountedFor'
<1> SUFFICES ASSUME apart' PROVE \E m \in meant' : FileIsMeant(m)'
  BY DEF FileIsAccountedFor
<1>1. apart /\ ~Overlaps(a) /\ meant' = meant
  BY DEF Open, Expect, ToolTypeOK
<1>2. stage'[a] = "opened" /\ exists' /\ text' = << >> /\ call' = call
  BY DEF Open, Goes, ToolTypeOK
<1>3. \A b \in Agents \ {a} : ~InFile(b)'
  BY <1>1 DEF Open, Goes, InFile, Overlaps, ToolTypeOK
<1>4. PICK m \in meant : Fits(call[a], m) /\ buffer'[a] = After(call[a], m.text)
  <2>1. CASE stage[a] = "cleared"
    <3>1. call[a].tool = "write_file" /\ buffer'[a] = call[a].content
      BY <2>1 DEF Open, Goes, ToolTypeOK
    <3>2. PICK m \in meant : TRUE
      BY <1>1 DEF FileIsAccountedFor
    <3>3. Fits(call[a], m) /\ buffer'[a] = After(call[a], m.text)
      BY <3>1 DEF Fits, After
    <3> QED
      BY <3>3
  <2>2. CASE stage[a] = "edited"
    <3>1. PICK m \in meant : m = File /\ EditIsPending(a)
      BY <1>1, <2>2 DEF FileIsAccountedFor, FileIsMeant, InFile
    <3>2. m = [exists |-> TRUE, text |-> text] /\ text \in Seq(Pieces)
      BY <3>1 DEF File, EditIsPending, ToolTypeOK
    <3>3. /\ After(call[a], text) = Replaced(text, call[a].old, call[a].new)
          /\ Fits(call[a], m)
      BY <3>1, <3>2, EditIsReplacement DEF EditIsPending
    <3>4. buffer'[a] = buffer[a]
      BY <2>2 DEF Open, Goes
    <3> QED
      BY <3>1, <3>2, <3>3, <3>4 DEF EditIsPending
  <2> QED
    BY <2>1, <2>2 DEF Open, Goes
<1>5. InFile(a)'
  BY <1>2 DEF InFile
<1>6. FileIsMeant(m)'
  BY <1>2, <1>3, <1>4, <1>5 DEF FileIsMeant
<1> QED
  BY <1>1, <1>6

(* What is written is what the call reports. *)
LEMMA FileKeptByFill ==
  ASSUME ToolTypeOK, StageFits, FileIsAccountedFor, NEW a \in Agents, Fill(a)
  PROVE  FileIsAccountedFor'
<1> SUFFICES ASSUME apart' PROVE \E m \in meant' : FileIsMeant(m)'
  BY DEF FileIsAccountedFor
<1>1. apart /\ InFile(a)
  BY DEF Fill, Expect, InFile, ToolTypeOK
<1>2. PICK before \in meant : FileIsMeant(before)
  BY <1>1 DEF FileIsAccountedFor
<1> PICK m : m = Holding(After(call[a], before.text))
  OBVIOUS
<1>3. /\ stage[a] = "opened" /\ exists /\ text = << >>
      /\ Fits(call[a], before) /\ buffer[a] = After(call[a], before.text)
  BY <1>1, <1>2 DEF Fill, FileIsMeant
<1>4. text' = buffer[a]
  BY <1>3, FillOfEmpty DEF Fill, ToolTypeOK
<1>5. m = File'
  BY <1>3, <1>4 DEF Fill, Holding, File, ToolTypeOK
<1>6. \A b \in Agents : ~InFile(b)'
  BY <1>1, <1>2 DEF FileIsMeant, Fill, InFile, ToolTypeOK
<1>7. m \in meant'
  BY <1>2, <1>3 DEF Fill, Expect
<1>8. FileIsMeant(m)'
  BY <1>5, <1>6 DEF FileIsMeant
<1> QED
  BY <1>7, <1>8

(* A command that is alone with the file leaves none, or leaves it alone.  *)
LEMMA FileKeptByRemove ==
  ASSUME ToolTypeOK, FileIsAccountedFor, NEW a \in Agents, Remove(a)
  PROVE  FileIsAccountedFor'
<1> SUFFICES ASSUME apart' PROVE \E m \in meant' : FileIsMeant(m)'
  BY DEF FileIsAccountedFor
<1>1. PICK ok, removed \in BOOLEAN :
         /\ ok => removed
         /\ exists' = (exists /\ ~removed)
         /\ text' = IF removed THEN << >> ELSE text
         /\ Expect({Absent} \cup (IF ok THEN {} ELSE meant), Overlaps(a))
  BY DEF Remove
<1>2. /\ apart /\ ~Overlaps(a)
      /\ meant' = {Absent} \cup (IF ok THEN {} ELSE meant)
  BY <1>1 DEF Expect, ToolTypeOK
<1>3. ~InFile(a) /\ \A b \in Agents : ~InFile(b)'
  BY <1>2 DEF Remove, Overlaps, InFile
<1>4. File' \in meant'
  <2>1. CASE removed
    BY <1>1, <1>2, <2>1 DEF File, Absent
  <2>2. CASE ~removed
    <3>1. File' = File /\ meant \subseteq meant'
      BY <1>1, <1>2, <2>2 DEF File, ToolTypeOK
    <3> QED
      BY <1>2, <1>3, <3>1, FirstInFile
  <2> QED
    BY <2>1, <2>2
<1>5. FileIsMeant(File)'
  BY <1>3 DEF FileIsMeant
<1> QED
  BY <1>4, <1>5

(* A call that dies before it opens the file has not touched it. *)
LEMMA FileKeptByDeath ==
  ASSUME ToolTypeOK, FileIsAccountedFor, NEW a \in Agents, Dies(a)
  PROVE  FileIsAccountedFor'
<1>1. CASE stage[a] = "edited"
  <2> SUFFICES ASSUME apart' PROVE \E m \in meant' : FileIsMeant(m)'
    BY DEF FileIsAccountedFor
  <2>1. apart /\ meant' = meant
    BY <1>1 DEF Dies, Expect, ToolTypeOK
  <2>2. PICK m \in meant : FileIsMeant(m)
    BY <2>1 DEF FileIsAccountedFor
  <2>3. InFile(a)
    BY <1>1 DEF InFile
  <2>4. m = File /\ File' = File
    BY <1>1, <2>2, <2>3 DEF FileIsMeant, Dies, File
  <2>5. \A b \in Agents : ~InFile(b)'
    BY <2>2, <2>3 DEF FileIsMeant, Dies, InFile, ToolTypeOK
  <2>6. FileIsMeant(m)'
    BY <2>4, <2>5 DEF FileIsMeant
  <2> QED
    BY <2>1, <2>6
<1>2. CASE stage[a] \in {"opened", "unlinked"}
  BY <1>2 DEF Dies, Expect, FileIsAccountedFor
<1>3. CASE ~InFile(a)
  <2>1. CASE apart
    <3>1. ~InFile(a)' /\ UNCHANGED fileVars
      BY <1>3, <2>1 DEF Dies, InFile, Expect, fileVars, ToolTypeOK
    <3>2. \A b \in Agents \ {a} :
              stage'[b] = stage[b] /\ call'[b] = call[b] /\ buffer'[b] = buffer[b]
      BY DEF Dies, Forgotten, ToolTypeOK
    <3> QED
      BY <1>3, <3>1, <3>2, FileKeptOutside
  <2>2. CASE ~apart
    BY <2>2 DEF Dies, Expect, FileIsAccountedFor
  <2> QED
    BY <2>1, <2>2
<1> QED
  BY <1>1, <1>2, <1>3 DEF InFile

(* No step of an agent loses what the file is meant to be. *)
LEMMA FileKept ==
  ASSUME ToolTypeOK, StageFits, FileIsAccountedFor,
         NEW a \in Agents, ToolStep(a)
  PROVE  FileIsAccountedFor'
<1>1. CASE \/ \E c \in Calls : Execute(a, c)
           \/ Policy(a) \/ AllowedBefore(a)
           \/ AnswerYes(a) \/ AnswerAlways(a) \/ AnswerNo(a)
           \/ Return(a)
  <2> USE <1>1 DEF Execute, Policy, AllowedBefore, AnswerYes, AnswerAlways,
                   AnswerNo, Denied, Return, Goes
  <2>1. UNCHANGED fileVars
    BY DEF fileVars
  <2>2. ~InFile(a) /\ ~InFile(a)'
    BY DEF InFile, ToolTypeOK
  <2>3. \A b \in Agents \ {a} :
            stage'[b] = stage[b] /\ call'[b] = call[b] /\ buffer'[b] = buffer[b]
    BY DEF Forgotten, callVars, ToolTypeOK
  <2> QED
    BY <2>1, <2>2, <2>3, FileKeptOutside
<1> QED
  BY <1>1, FileKeptByRead, FileKeptByOpen, FileKeptByFill, FileKeptByRemove,
     FileKeptByDeath DEF ToolStep, CallStep

-----------------------------------------------------------------------------
(* Together.                                                               *)

(* The strengthening is inductive. *)
LEMMA ToolInitInv ==
  ASSUME ToolInit PROVE ToolInv
<1>1. << >> \in Seq(Pieces)
  OBVIOUS
<1>2. ToolTypeOK
  BY <1>1 DEF ToolInit, ToolTypeOK, Stages
<1>3. FileIsAccountedFor
  BY DEF ToolInit, FileIsAccountedFor, FileIsMeant, InFile, File, Absent
<1> QED
  BY <1>2, <1>3 DEF ToolInit, ToolInv, StageFits, RunsAreGranted,
                    GrantsWereSaid, RiskIsKnown

(* A step of an agent keeps it ... *)
LEMMA ToolStepInv ==
  ASSUME ToolInv, NEW a \in Agents, ToolStep(a) PROVE ToolInv'
BY TypeKept, StageKept, SaidKept, GrantsKept, RiskKept, FileKept DEF ToolInv

(* ... and so does whatever leaves the tools alone. *)
LEMMA ToolStutterInv ==
  ASSUME ToolInv, UNCHANGED toolVars PROVE ToolInv'
BY DEF toolVars, callVars, consentVars, fileVars, ToolInv, ToolTypeOK,
       StageFits, RunsAreGranted, MayRun, GrantsWereSaid, RiskIsKnown,
       FileIsAccountedFor, FileIsMeant, InFile, File, EditIsPending

(* When nobody is at work on the file, it is what the reports say. *)
LEMMA ToolFileIsReported ==
  ASSUME ToolInv PROVE FileIsWhatWasReported
BY DEF ToolInv, FileIsAccountedFor, FileIsMeant, FileIsWhatWasReported, File

(* Whoever overwrites was allowed to, or could not know. *)
LEMMA ToolOverwriteIsAllowed ==
  ASSUME ToolInv, NEW a \in Agents, Overwrites(a)
  PROVE  \/ made[a]
         \/ /\ a \in Attended /\ risk[a] = "destructive"
            /\ yes[a] \/ "write_file" \in said[a]
<1>1. stage[a] = "cleared" /\ exists /\ call[a].tool = "write_file" /\ call[a].inside
  BY DEF Overwrites, Open, Goes, ToolInv, StageFits
<1> QED
  BY <1>1 DEF ToolInv, RiskIsKnown, RunsAreGranted, MayRun

-----------------------------------------------------------------------------
(* Recordings, meetings and utterances.                                    *)

(* The file of a recording is open from start() to the end of stop(). *)
WavIsOpenMeanwhile ==
    /\ wavOpen \in BOOLEAN
    /\ wavOpen <=> caller \in {"opened", "recording", "stopping", "stopped"}

(* Between the blocks that were delivered and the file there is at most    *)
(* the one in the callback, and a callback only while the stream is there. *)
BlocksAreAccountedFor ==
    /\ caller \in {"idle", "opened", "recording", "stopping", "stopped", "empty", "done"}
    /\ callback \in {"idle", "called", "locked"}
    /\ {framesWritten, audio, heard} \subseteq 0..MaxBlocks
    /\ callback # "idle" => caller \in {"recording", "stopping"}
    /\ caller \in {"idle", "opened"} => heard = 0
    /\ audio = framesWritten
    /\ heard = audio + (IF callback = "idle" THEN 0 ELSE 1)
    /\ caller = "empty" => heard = 0
    /\ caller = "done" => heard > 0

RecInv == WavIsOpenMeanwhile /\ BlocksAreAccountedFor

(* What the folder of a meeting holds, by how far the meeting is. *)
FolderIsBehind ==
    /\ repl \in {"meeting", "minutes"} => folder.transcript = "none" /\ ~folder.summary
    /\ repl = "minutes" => folder.heard > 0 /\ folder.audio = folder.heard
    /\ turnOf = "meeting" => repl = "turn" /\ folder.transcript = "text"

FolderInv == FolderIsBehind /\ SummaryFollowsRecording

ReplTypeOK ==
    /\ repl \in Modes /\ turnOf \in {"prompt", "voice", "meeting"}
    /\ folder \in [heard : 0..MaxBlocks, audio : 0..MaxBlocks,
                   transcript : {"none", "empty", "text"}, summary : BOOLEAN]

ReplInv == ReplTypeOK /\ FolderInv

TmpWavInv == tmpWav \in BOOLEAN /\ UtteranceIsRemoved

IInv == ToolInv /\ RecInv /\ ReplInv /\ TmpWavInv

-----------------------------------------------------------------------------
(* The recorder.                                                           *)

(* A new recorder has nothing, and no file. *)
LEMMA NewRecorder ==
  ASSUME Rec!New PROVE RecInv'
<1>1. WavIsOpenMeanwhile'
  BY Zenon DEF Rec!New, WavIsOpenMeanwhile
<1>2. BlocksAreAccountedFor'
  BY CliAssumption DEF Rec!New, Rec!FramesOfNew, BlocksAreAccountedFor
<1> QED
  BY <1>1, <1>2 DEF RecInv

(* start() opens the file and stop() closes it. *)
LEMMA WavKept ==
  ASSUME WavIsOpenMeanwhile, Rec!RecorderStep PROVE WavIsOpenMeanwhile'
<1> USE DEF WavIsOpenMeanwhile, Rec!CallerGoes
<1>1. CASE Rec!OpenWav
  BY <1>1, Zenon DEF Rec!OpenWav
<1>2. CASE Rec!StartStream
  BY <1>2, Zenon DEF Rec!StartStream
<1>3. CASE Rec!Deliver
  BY <1>3, Zenon DEF Rec!Deliver
<1>4. CASE Rec!CallbackLocks
  BY <1>4, Zenon DEF Rec!CallbackLocks
<1>5. CASE Rec!Write
  BY <1>5, Zenon DEF Rec!Write
<1>6. CASE Rec!Stop
  BY <1>6, Zenon DEF Rec!Stop, Rec!WavInStop
<1>7. CASE Rec!StreamStops
  BY <1>7, Zenon DEF Rec!StreamStops
<1>8. CASE Rec!CloseWav
  <2>1. wavOpen' = FALSE /\ caller' \in {"empty", "done"}
    BY <1>8, Zenon DEF Rec!CloseWav
  <2> QED
    BY <2>1, Zenon
<1> QED
  BY <1>1, <1>2, <1>3, <1>4, <1>5, <1>6, <1>7, <1>8
     DEF Rec!RecorderStep, Rec!CallbackStep, Rec!StopStep

(* No order of the callback and stop() loses a block. *)
LEMMA BlocksKept ==
  ASSUME RecInv, Rec!RecorderStep PROVE BlocksAreAccountedFor'
<1>1. wavOpen <=> caller \in {"opened", "recording", "stopping", "stopped"}
  BY DEF RecInv, WavIsOpenMeanwhile
<1> USE CliAssumption
    DEF RecInv, BlocksAreAccountedFor, Rec!CallerGoes, Rec!CallbackGoes
<1>2. CASE Rec!OpenWav
  BY <1>2 DEF Rec!OpenWav
<1>3. CASE Rec!StartStream
  BY <1>3 DEF Rec!StartStream
<1>4. CASE Rec!Deliver
  BY <1>4 DEF Rec!Deliver
<1>5. CASE Rec!CallbackLocks
  BY <1>5 DEF Rec!CallbackLocks
<1>6. CASE Rec!Write
  BY <1>1, <1>6 DEF Rec!Write
<1>7. CASE Rec!Stop
  BY <1>7 DEF Rec!Stop
<1>8. CASE Rec!StreamStops
  BY <1>8 DEF Rec!StreamStops
<1>9. CASE Rec!CloseWav
  BY <1>9 DEF Rec!CloseWav
<1> QED
  BY <1>2, <1>3, <1>4, <1>5, <1>6, <1>7, <1>8, <1>9
     DEF Rec!RecorderStep, Rec!CallbackStep, Rec!StopStep

(* What leaves the recorder alone keeps all that is known of it. *)
LEMMA RecorderStutters ==
  ASSUME RecInv, UNCHANGED recorderVars PROVE RecInv'
BY DEF recorderVars, RecInv, WavIsOpenMeanwhile, BlocksAreAccountedFor

(* Every step of the program is one of the recorder's, replaces it, or     *)
(* leaves it alone.                                                        *)
LEMMA RecKept ==
  ASSUME RecInv, [Next]_vars PROVE RecInv'
<1>1. CASE Recording
  BY <1>1, WavKept, BlocksKept DEF Recording, RecInv
<1>2. CASE Quit \/ Killed \/ RecordingFails \/ Recorded
  BY <1>2, NewRecorder DEF Quit, Killed, Ends, RecordingFails, Recorded
<1>3. CASE \/ Start \/ Message \/ TurnEnds
           \/ BeginMeeting \/ TranscribeFails \/ Transcribe \/ Summarise
           \/ Voice \/ UNCHANGED vars
  BY <1>3, RecorderStutters
     DEF Start, Message, TurnEnds, BeginMeeting, TranscribeFails, Transcribe,
         Summarise, Voice, EnterVoice, LeaveVoice, Talk, Transcribed, vars
<1>4. ASSUME NEW a \in Agents, Calling(a) \/ ServerDies(a) PROVE RecInv'
  BY <1>4, RecorderStutters DEF Calling, ServerDies
<1> QED
  BY <1>1, <1>2, <1>3, <1>4 DEF Next, Meeting

-----------------------------------------------------------------------------
(* The tools.                                                              *)

(* Nor does what the program does disturb the tools, except by ending. *)
LEMMA ToolKept ==
  ASSUME ToolInv, [Next]_vars PROVE ToolInv'
<1>1. CASE Quit \/ Killed
  BY <1>1, CliAssumption, ToolStepInv DEF Quit, Killed, Ends, ToolStep
<1>2. CASE \/ Start \/ Message \/ TurnEnds \/ Meeting \/ Voice \/ UNCHANGED vars
  BY <1>2, ToolStutterInv
     DEF Start, Message, TurnEnds, Meeting, BeginMeeting, Recording,
         RecordingFails, Recorded, TranscribeFails, Transcribe, Summarise,
         Voice, EnterVoice, LeaveVoice, Talk, Transcribed, vars
<1>3. ASSUME NEW a \in Agents, Calling(a) \/ ServerDies(a) PROVE ToolInv'
  BY <1>3, ToolStepInv DEF Calling, ServerDies, ToolStep
<1> QED
  BY <1>1, <1>2, <1>3 DEF Next

-----------------------------------------------------------------------------
(* Meetings and voice mode.                                                *)

(* Each step of a meeting finds the folder as the step before left it. *)
LEMMA ReplKept ==
  ASSUME RecInv, ReplInv, [Next]_vars PROVE ReplInv'
<1> USE CliAssumption
    DEF ReplInv, ReplTypeOK, Modes, FolderInv, FolderIsBehind,
        SummaryFollowsRecording, Goto, Save
<1>1. CASE Start \/ Message \/ TurnEnds
  BY <1>1 DEF Start, Message, TurnEnds
<1>2. CASE Quit \/ Killed
  BY <1>2 DEF Quit, Killed, Ends
<1>3. CASE EnterVoice \/ LeaveVoice \/ Talk
  BY <1>3 DEF EnterVoice, LeaveVoice, Talk
<1>4. CASE Transcribed
  BY <1>4 DEF Transcribed
<1>5. CASE BeginMeeting
  BY <1>5 DEF BeginMeeting, NewFolder
<1>6. CASE Recording \/ RecordingFails \/ TranscribeFails
  BY <1>6 DEF Recording, RecordingFails, TranscribeFails, replVars
<1>7. CASE Recorded
  <2>1. PICK f : /\ f = [folder EXCEPT !.heard = heard]
                 /\ folder' = [f EXCEPT !.audio = audio]
    BY <1>7, Zenon DEF Recorded
  <2>2. /\ caller \in {"done", "empty"} /\ repl = "meeting"
        /\ repl' = IF caller = "done" THEN "minutes" ELSE "prompt"
        /\ turnOf' = turnOf
    BY <1>7 DEF Recorded
  <2>3. /\ {heard, audio} \subseteq 0..MaxBlocks /\ audio = heard
        /\ caller = "done" => heard > 0
    BY <2>2 DEF RecInv, BlocksAreAccountedFor
  <2> QED
    BY <2>1, <2>2, <2>3
<1>8. CASE Transcribe
  BY <1>8 DEF Transcribe
<1>9. CASE Summarise
  BY <1>9 DEF Summarise
<1>10. ASSUME NEW a \in Agents, Calling(a) \/ ServerDies(a) PROVE ReplInv'
  BY <1>10 DEF Calling, ServerDies, replVars
<1>11. CASE UNCHANGED vars
  BY <1>11 DEF vars, replVars
<1> QED
  BY <1>1, <1>2, <1>3, <1>4, <1>5, <1>6, <1>7, <1>8, <1>9, <1>10, <1>11
     DEF Next, Voice, Meeting

(* Every way out of a transcription removes the file. *)
LEMMA TmpWavKept ==
  ASSUME TmpWavInv, [Next]_vars PROVE TmpWavInv'
<1> USE DEF TmpWavInv, UtteranceIsRemoved, Goto
<1>1. CASE Start \/ Quit
  <2>1. tmpWav' = FALSE
    BY <1>1, Zenon DEF Start, Quit
  <2> QED
    BY <2>1, Zenon
<1>2. CASE Killed
  BY <1>2, Zenon DEF Killed, Ends
<1>3. CASE Talk
  BY <1>3, Zenon DEF Talk
<1>4. CASE Transcribed
  <2>1. tmpWav' = FALSE
    BY <1>4, Zenon DEF Transcribed, TmpWavAfter
  <2> QED
    BY <2>1, Zenon
<1>5. CASE \/ Message \/ TurnEnds \/ EnterVoice \/ LeaveVoice \/ BeginMeeting
           \/ Recording \/ RecordingFails \/ Recorded \/ TranscribeFails
           \/ Transcribe \/ Summarise
  <2>1. tmpWav' = tmpWav /\ repl \notin {"dictated", "gone"}
    BY <1>5 DEF Message, TurnEnds, EnterVoice, LeaveVoice, BeginMeeting,
                Recording, RecordingFails, Recorded, TranscribeFails,
                Transcribe, Summarise, replVars
  <2> QED
    BY <2>1, Zenon
<1>6. ASSUME NEW a \in Agents, Calling(a) \/ ServerDies(a) PROVE TmpWavInv'
  <2>1. tmpWav' = tmpWav /\ repl' = repl
    BY <1>6 DEF Calling, ServerDies, replVars
  <2> QED
    BY <2>1, Zenon
<1>7. CASE UNCHANGED vars
  BY <1>7, Zenon DEF vars, replVars
<1> QED
  BY <1>1, <1>2, <1>3, <1>4, <1>5, <1>6, <1>7 DEF Next, Voice, Meeting

-----------------------------------------------------------------------------
(* The strengthening is inductive. *)
LEMMA InitInv == Init => IInv
<1> SUFFICES ASSUME Init PROVE IInv
  OBVIOUS
<1>1. ToolInv
  BY ToolInitInv DEF Init
<1>2. WavIsOpenMeanwhile
  BY Zenon DEF Init, Rec!RecorderInit, WavIsOpenMeanwhile
<1>3. BlocksAreAccountedFor
  BY CliAssumption DEF Init, Rec!RecorderInit, BlocksAreAccountedFor
<1>4. ReplInv
  BY CliAssumption
     DEF Init, NewFolder, ReplInv, ReplTypeOK, Modes, FolderInv,
         FolderIsBehind, SummaryFollowsRecording
<1>5. TmpWavInv
  BY Zenon DEF Init, TmpWavInv, UtteranceIsRemoved
<1> QED
  BY <1>1, <1>2, <1>3, <1>4, <1>5 DEF IInv, RecInv

(* A step of the program keeps it, ... *)
LEMMA NextInv == IInv /\ [Next]_vars => IInv'
BY ToolKept, RecKept, ReplKept, TmpWavKept DEF IInv

(* ... so that it always holds. *)
LEMMA SpecInv == Spec => []IInv
BY InitInv, NextInv, PTL DEF Spec

(* Type correctness. *)
THEOREM SpecTypeOK == Spec => []TypeOK
<1>1. IInv => TypeOK
  BY DEF IInv, TypeOK, ToolInv, RecInv, WavIsOpenMeanwhile,
         BlocksAreAccountedFor, Rec!RecorderTypeOK, ReplInv, ReplTypeOK, TmpWavInv
<1> QED
  BY SpecInv, <1>1, PTL

(* No agent runs a gated tool on a grant of another agent, of another      *)
(* process or to another tool, whoever dies in between.  It says nothing   *)
(* of the mails of a terminal agent, see GatedRunsAreGranted.              *)
THEOREM SpecGatedRunsAreGranted == Spec => []GatedRunsAreGranted
<1>1. IInv => GatedRunsAreGranted
  BY DEF IInv, ToolInv, RunsAreGranted, MayRun, GatedRunsAreGranted
<1> QED
  BY SpecInv, <1>1, PTL

(* Calls that did not overlap and were not cut off have had, one after the *)
(* other, the effect that they reported: no consent that takes long, no    *)
(* denial and no failing file tool makes the file anything else; only of a *)
(* removing command that failed it is open whether the file is still there. *)
THEOREM SpecFileIsWhatWasReported == Spec => []FileIsWhatWasReported
<1>1. IInv => FileIsWhatWasReported
  BY ToolFileIsReported DEF IInv
<1> QED
  BY SpecInv, <1>1, PTL

(* A write empties a file that was there when it was classified only with  *)
(* the consent to something destructive.                                   *)
THEOREM SpecOverwritesWereAllowed == Spec => OverwritesWereAllowed
<1>1. IInv => \A a \in Agents : Overwrites(a) =>
          \/ made[a]
          \/ /\ a \in Attended /\ risk[a] = "destructive"
             /\ yes[a] \/ "write_file" \in said[a]
  BY ToolOverwriteIsAllowed DEF IInv
<1> QED
  BY SpecInv, <1>1, PTL DEF OverwritesWereAllowed

(* When stop() has returned, every block that the stream delivered is in   *)
(* the file, however many there were.                                      *)
THEOREM SpecRecordingIsComplete == Spec => []RecordingIsComplete
<1>1. IInv => RecordingIsComplete
  BY DEF IInv, RecInv, WavIsOpenMeanwhile, BlocksAreAccountedFor,
         RecordingIsComplete, Rec!RecordingIsComplete
<1> QED
  BY SpecInv, <1>1, PTL

(* A meeting's folder never has the summary of a transcript it does not    *)
(* have, nor the transcript of nothing.                                    *)
THEOREM SpecSummaryFollowsRecording == Spec => []SummaryFollowsRecording
<1>1. IInv => SummaryFollowsRecording
  BY DEF IInv, ReplInv, FolderInv
<1> QED
  BY SpecInv, <1>1, PTL

(* The file of an utterance does not outlast its transcription, unless the *)
(* process was killed.                                                     *)
THEOREM SpecUtteranceIsRemoved == Spec => []UtteranceIsRemoved
<1>1. IInv => UtteranceIsRemoved
  BY DEF IInv, TmpWavInv
<1> QED
  BY SpecInv, <1>1, PTL
=============================================================================
