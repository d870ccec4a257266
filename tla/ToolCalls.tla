----------------------------- MODULE ToolCalls -----------------------------
(***************************************************************************)
(* Tool calls as SafeExecutor.execute runs them: classified, put to the    *)
(* consent manager, executed.  The agents share the file system of one     *)
(* Mac: some ask at a terminal (security/consent.py, CliConsent), the      *)
(* others run workflows (workflows/consent.py, PolicyConsent).  What the   *)
(* tools do is followed for one file within the permitted roots; how long  *)
(* consent takes, and what other agents do meanwhile, is left open.        *)
(*                                                                         *)
(* A text is a sequence of pieces; a piece is what old_str may match.      *)
(***************************************************************************)
EXTENDS Naturals, Sequences, FiniteSets

CONSTANTS
    Agents,     \* each does one tool call after the other
    Attended,   \* those of them with CliConsent, one process each
    Listed,     \* allow_tools of the workflow of the others
    Calls       \* the tool calls with their parameters

ASSUME CallsAssumption ==
    \A c \in Calls : c.tool = "write_file" =>
        c.content \in Seq({c.content[i] : i \in DOMAIN c.content})

VARIABLES
    stage,          \* stage[a]: how far execute() has got
    call, risk,     \* its tool call and what classify() said
    buffer,         \* the text a file tool is about to write
    sessionAllowed, \* CliConsent._session_allowed
    exists, text,   \* the file
    yes, said,      \* history: asked about this call, the user allowed it;
                    \* a to a tool in this process
    made,           \* history: the file came to be after a's classify()
    apart,          \* history: no two calls have been at work on the file at
                    \* once, and none was cut off in the middle of it
    meant           \* history: what, as long as they are apart, the file may
                    \* be by what the calls have reported

callVars == <<call, risk, buffer, yes, made>>
consentVars == <<sessionAllowed, said>>
fileVars == <<exists, text, apart, meant>>
toolVars == <<stage, callVars, consentVars, fileVars>>

NoCall == [tool |-> "none"]

Absent == [exists |-> FALSE, text |-> << >>]
Holding(t) == [exists |-> TRUE, text |-> t]

ToolInit ==
    /\ stage = [a \in Agents |-> "idle"]
    /\ call = [a \in Agents |-> NoCall]
    /\ risk = [a \in Agents |-> "read_only"]
    /\ buffer = [a \in Agents |-> << >>]
    /\ sessionAllowed = [a \in Agents |-> {}]
    /\ exists = FALSE /\ text = << >>
    /\ apart = TRUE /\ meant = {Absent}
    /\ yes = [a \in Agents |-> FALSE] /\ said = [a \in Agents |-> {}]
    /\ made = [a \in Agents |-> FALSE]

-----------------------------------------------------------------------------
(* classify().                                                             *)

FixedRisk(tool) ==
    CASE tool \in {"edit_file", "create_event"} -> "reversible"
      [] tool = "send_email" -> "destructive"
      [] OTHER -> "read_only"

(* A command is listed if it has no metacharacter, can be split, and its   *)
(* first word ends in a name of the list, whatever program that is; gh     *)
(* arguments are listed by command or subcommand.                          *)
CommandRisk(listed) == IF listed THEN "read_only" ELSE "destructive"

(* Mutant of WriteRisk: the risk of the class, whatever the path is. *)
WriteRiskDeclared(inside) == "reversible"

(* resolve_within refuses a path that is not inside; execute will fail.    *)
WriteRisk(inside) == IF inside /\ exists THEN "destructive" ELSE "reversible"

RiskOf(c) ==
    CASE c.tool = "write_file" -> WriteRisk(c.inside)
      [] c.tool \in {"run_shell", "github"} -> CommandRisk(c.listed)
      [] OTHER -> FixedRisk(c.tool)

-----------------------------------------------------------------------------
(* execute(), up to the tool.                                              *)

Goes(a, from, to) ==
    /\ stage[a] = from
    /\ stage' = [stage EXCEPT ![a] = to]

(* execute() has returned or raised, and its locals are gone. *)
Forgotten(a) ==
    /\ call' = [call EXCEPT ![a] = NoCall]
    /\ risk' = [risk EXCEPT ![a] = "read_only"]
    /\ buffer' = [buffer EXCEPT ![a] = << >>]
    /\ yes' = [yes EXCEPT ![a] = FALSE]
    /\ made' = [made EXCEPT ![a] = FALSE]

(* The agent comes to a call.  A call of risk read_only runs at once. *)
Execute(a, c) ==
    /\ Goes(a, "idle", IF RiskOf(c) = "read_only" THEN "cleared" ELSE "asking")
    /\ call' = [call EXCEPT ![a] = c]
    /\ risk' = [risk EXCEPT ![a] = RiskOf(c)]
    /\ UNCHANGED <<buffer, yes, made, consentVars, fileVars>>

(* request() returned False: "User denied permission for this action." *)
Denied(a) ==
    /\ Goes(a, "asking", "idle") /\ Forgotten(a)
    /\ UNCHANGED <<consentVars, fileVars>>

PolicyAllows(c, r) == r # "destructive" /\ c.tool \in Listed

(* PolicyConsent.request. *)
Policy(a) ==
    /\ a \notin Attended
    /\ IF PolicyAllows(call[a], risk[a])
       THEN Goes(a, "asking", "cleared") /\ UNCHANGED <<callVars, consentVars, fileVars>>
       ELSE Denied(a)

(* CliConsent.request finds an earlier 'a' for the tool ... *)
AllowedBefore(a) ==
    /\ a \in Attended /\ call[a].tool \in sessionAllowed[a]
    /\ Goes(a, "asking", "cleared")
    /\ UNCHANGED <<callVars, consentVars, fileVars>>

(* Mutant of Asks: a workflow asks at the terminal of its server, too. *)
AsksAnyone(a) == call[a].tool \notin sessionAllowed[a]

(* ... or puts the call to the user. *)
Asks(a) == a \in Attended /\ call[a].tool \notin sessionAllowed[a]

AnswerYes(a) ==
    /\ Asks(a) /\ Goes(a, "asking", "cleared")
    /\ yes' = [yes EXCEPT ![a] = TRUE]
    /\ UNCHANGED <<call, risk, buffer, made, consentVars, fileVars>>

AnswerAlways(a) ==
    /\ Asks(a) /\ Goes(a, "asking", "cleared")
    /\ sessionAllowed' = [sessionAllowed EXCEPT ![a] = @ \cup {call[a].tool}]
    /\ said' = [said EXCEPT ![a] = @ \cup {call[a].tool}]
    /\ yes' = [yes EXCEPT ![a] = TRUE]
    /\ UNCHANGED <<call, risk, buffer, made, fileVars>>

AnswerNo(a) == Asks(a) /\ Denied(a)

-----------------------------------------------------------------------------
(* The tools.                                                              *)

InFile(a) == stage[a] \in {"edited", "opened", "unlinked"}
Overlaps(a) == \E b \in Agents \ {a} : InFile(b)

(* The history goes on with these files, unless this step spoils it. *)
Expect(files, spoilt) ==
    /\ apart' = (apart /\ ~spoilt)
    /\ meant' = IF apart' THEN files ELSE {}

Occurrences(t, piece) == {i \in DOMAIN t : t[i] = piece}

(* Mutant of Matches: old_str may occur several times. *)
MatchesAny(t, old) == Occurrences(t, old) # {}

Matches(t, old) == Cardinality(Occurrences(t, old)) = 1

Replaced(t, old, new) == [i \in DOMAIN t |-> IF t[i] = old THEN new ELSE t[i]]

(* EditFileTool.execute reads the file and has the new text. *)
ReadToEdit(a) ==
    /\ call[a].tool = "edit_file" /\ call[a].inside
    /\ exists /\ Matches(text, call[a].old)
    /\ Goes(a, "cleared", "edited")
    /\ buffer' = [buffer EXCEPT ![a] = Replaced(text, call[a].old, call[a].new)]
    /\ Expect(meant, Overlaps(a))
    /\ UNCHANGED <<call, risk, yes, made, consentVars, exists, text>>

(* write_text opens the file, which creates or empties it ... *)
Open(a) ==
    /\ \/ /\ call[a].tool = "write_file" /\ call[a].inside
          /\ Goes(a, "cleared", "opened")
          /\ buffer' = [buffer EXCEPT ![a] = call[a].content]
       \/ Goes(a, "edited", "opened") /\ UNCHANGED buffer
    /\ exists' = TRUE /\ text' = << >>
    /\ made' = [b \in Agents |-> made[b] \/ (~exists /\ stage[b] # "idle")]
    /\ Expect(meant, Overlaps(a))
    /\ UNCHANGED <<call, risk, yes, consentVars>>

(* The text a call is to leave behind: an edit changes one place. *)
After(c, t) ==
    IF c.tool = "write_file" THEN c.content
    ELSE [i \in DOMAIN t |-> IF Occurrences(t, c.old) = {i} THEN c.new ELSE t[i]]

(* A successful edit has found a file with just one place to change. *)
Fits(c, file) ==
    c.tool = "edit_file" =>
        file.exists /\ \E i \in DOMAIN file.text : Occurrences(file.text, c.old) = {i}

(* ... and writes from its start, over what another call has written since. *)
Fill(a) ==
    /\ stage[a] \in {"opened", "unlinked"}
    /\ stage' = [stage EXCEPT ![a] = "idle"]
    /\ text' = IF stage[a] = "unlinked" THEN text
               ELSE buffer[a] \o SubSeq(text, Len(buffer[a]) + 1, Len(text))
    /\ Expect({Holding(After(call[a], m.text)) :
                   m \in {f \in meant : Fits(call[a], f)}}, FALSE)
    /\ Forgotten(a)
    /\ UNCHANGED <<consentVars, exists>>

(* A command that removes the file has done so if it succeeds.  If it ends *)
(* with another exit code or runs out of time (both are a ToolError), or is *)
(* cut off, then it may have done so or not.                               *)
Remove(a) ==
    /\ call[a].tool = "run_shell" /\ call[a].removes
    /\ stage[a] = "cleared"
    /\ \E ok, removed \in BOOLEAN :
          /\ ok => removed
          /\ stage' = [b \in Agents |->
                IF b = a THEN "idle"
                ELSE IF removed /\ stage[b] = "opened" THEN "unlinked" ELSE stage[b]]
          /\ exists' = (exists /\ ~removed)
          /\ text' = IF removed THEN << >> ELSE text
          /\ Expect({Absent} \cup (IF ok THEN {} ELSE meant), Overlaps(a))
    /\ Forgotten(a)
    /\ UNCHANGED consentVars

(* A call that leaves the file alone: it is about something else, it only  *)
(* reads, or it raises before it opens the file.                           *)
Leaves(a) ==
    LET c == call[a] IN
    CASE c.tool = "write_file" -> ~c.inside
      [] c.tool = "edit_file" -> ~(c.inside /\ exists /\ Matches(text, c.old))
      [] c.tool = "run_shell" -> ~c.removes
      [] OTHER -> TRUE

Return(a) ==
    /\ Leaves(a)
    /\ Goes(a, "cleared", "idle") /\ Forgotten(a)
    /\ UNCHANGED <<consentVars, fileVars>>

(* Mutant of GrantsAfter: the grants are kept with the agent's settings. *)
GrantsAfterKept(a) == sessionAllowed[a]

(* The grants are the process's own. *)
GrantsAfter(a) == {}

(* The process ends, or the disk is full and the error ends the turn: what *)
(* the call was about to do is not done.                                   *)
Dies(a) ==
    /\ stage' = [stage EXCEPT ![a] = "idle"] /\ Forgotten(a)
    /\ sessionAllowed' = [sessionAllowed EXCEPT ![a] = GrantsAfter(a)]
    /\ said' = [said EXCEPT ![a] = {}]
    /\ Expect(meant, stage[a] \in {"opened", "unlinked"})
    /\ UNCHANGED <<exists, text>>

CallStep(a) ==
    \/ \E c \in Calls : Execute(a, c)
    \/ Policy(a) \/ AllowedBefore(a)
    \/ AnswerYes(a) \/ AnswerAlways(a) \/ AnswerNo(a)
    \/ ReadToEdit(a) \/ Open(a) \/ Fill(a) \/ Remove(a) \/ Return(a)
-----------------------------------------------------------------------------
Stages == {"idle", "asking", "cleared", "edited", "opened", "unlinked"}
PiecesOf(c) ==
    IF c.tool = "edit_file" THEN {c.old, c.new}
    ELSE IF c.tool = "write_file" THEN {c.content[i] : i \in DOMAIN c.content}
    ELSE {}
Pieces == UNION {PiecesOf(c) : c \in Calls}
Tools == {c.tool : c \in Calls \cup {NoCall}}

ToolTypeOK ==
    /\ stage \in [Agents -> Stages]
    /\ call \in [Agents -> Calls \cup {NoCall}]
    /\ risk \in [Agents -> {"read_only", "reversible", "destructive"}]
    /\ buffer \in [Agents -> Seq(Pieces)]
    /\ {yes, made} \subseteq [Agents -> BOOLEAN]
    /\ {sessionAllowed, said} \subseteq [Agents -> SUBSET Tools]
    /\ {exists, apart} \subseteq BOOLEAN /\ text \in Seq(Pieces) /\ (~exists => text = << >>)
    /\ \A a \in Agents : sessionAllowed[a] # {} => a \in Attended

(* No agent runs a gated tool on a grant of another one: a terminal agent  *)
(* has the user's word for that very call, or an a to that tool by the     *)
(* user of the same process, which covers calls the user never saw; a      *)
(* workflow has the tool on its list and the call is reversible.           *)
(* The mails of a terminal agent are left out.  Of them the texts promise  *)
(* more: "`send_email` always requires confirmation" (README.md:19),       *)
(* "outward-facing: always prompts" (jarvis/tools/email.py:75); and the    *)
(* code does not keep it, since after an a to one mail AllowedBefore lets  *)
(* the later ones pass without a prompt.                                   *)
GatedRunsAreGranted ==
    \A a \in Agents : stage[a] \notin {"idle", "asking"} /\ risk[a] # "read_only" =>
        IF a \in Attended
        THEN call[a].tool # "send_email" => yes[a] \/ call[a].tool \in said[a]
        ELSE risk[a] = "reversible" /\ call[a].tool \in Listed

(* write_file is classified by path.exists() and runs when consent was     *)
(* given, any time later.  It empties a file only if a user who was told   *)
(* that it is destructive, or had said a, allowed it; or if the file was   *)
(* not there when it was classified, and another agent made it since.      *)
Overwrites(a) == Open(a) /\ exists /\ call[a].tool = "write_file"

OverwritesWereAllowed ==
    [][\A a \in Agents : Overwrites(a) =>
          \/ made[a]
          \/ /\ a \in Attended /\ risk[a] = "destructive"
             /\ yes[a] \/ "write_file" \in said[a]]_toolVars

(* As long as calls were at work on the file one at a time, and none was   *)
(* cut off, the file is what they reported, however long consent took: a   *)
(* file tool has done all of its change if it reported success, and none   *)
(* if it failed or was denied; a command that removes the file has removed *)
(* it if it reported success, and only its failure leaves that open.       *)
FileIsWhatWasReported ==
    apart /\ (\A a \in Agents : ~InFile(a)) =>
        [exists |-> exists, text |-> text] \in meant
=============================================================================
