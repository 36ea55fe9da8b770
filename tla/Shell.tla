------------------------------- MODULE Shell -------------------------------
(***************************************************************************)
(* The command shell of debug/other/shell.cpp with the processes of        *)
(* debug/other/proc.cpp and, for the time command, readRTC of Time.  None  *)
(* of it is in the build: the headers it includes are not in the           *)
(* repository, nor are getChar, the terminal, NEW and free, which are      *)
(* taken for what the shell uses them as.                                  *)
(*                                                                         *)
(* The line is read key by key into commandBuffer, which is never cleared: *)
(* what an earlier line left stays behind the end of this one.  Deleting   *)
(* before the start of the line writes before the buffer; nothing is said  *)
(* from there on.  What a command prints is left out.                      *)
(*                                                                         *)
(* DeleteOne and KeepState are not part of the model: they are mistakes    *)
(* the code could have made.                                               *)
(***************************************************************************)
EXTENDS Time, SequencesExt

CONSTANTS
    Size,       \* of commandBuffer and inputBuffer: 80
    Letters,    \* keys that are neither space, newline nor delete
    Names,      \* commands' names, a function to words
    Arguments   \* words the shell may be started with

Commands == DOMAIN Names

\* Commands whose function ends without a return: their code is any.
NoReturn == {"version", "uptime", "break"}

Nul == "nul"
Space == "space"

ASSUME ShellAssumption ==
    /\ Size \in Nat
    /\ Letters \cap {Nul, Space} = {}
    /\ Commands \subseteq {"debug", "time", "ls", "shutdown"} \cup NoReturn
    /\ \A c \in Commands : Names[c] \in Seq(Letters) /\ Len(Names[c]) < Size
    /\ "debug" \in Commands => Len(Names["debug"]) + 1 < Size
    /\ \A c, d \in Commands : Names[c] = Names[d] => c = d
    /\ \A w \in Arguments : w \in Seq(Letters) /\ Len(w) < Size

VARIABLES
    commandBuffer,
    i,          \* of the loop that reads keys: characters in its buffer
    shown,      \* the line as the terminal shows it
    pc,         \* "line", "process", "run", "debug", "message", "time", "kill"
                \* or "outside"
    command,    \* whose code CURRENT_COMMAND has, or "none" for a null pointer
    state,      \* of the command's process
    allocated,  \* processes that were allocated and not freed
    child,      \* the shell's process may have children
    exitCode

lineVars == <<commandBuffer, i, shown>>
procVars == <<command, state, allocated, child>>
vars == <<lineVars, pc, procVars, exitCode, timeVars>>

-----------------------------------------------------------------------------
Padded(word) == [k \in 0..(Size - 1) |-> IF k < Len(word) THEN word[k + 1] ELSE Nul]

\* Started with arguments, the shell runs the first before it reads a line;
\* if there is none or it is too long, the empty word.
Init ==
    /\ \/ shown = <<>> /\ pc = "line"
       \/ shown \in Arguments \cup {<<>>} /\ pc = "process"
    /\ commandBuffer = Padded(shown)
    /\ i = 0
    /\ command = "none" /\ state = "none" /\ allocated = 0
    /\ child \in BOOLEAN
    /\ exitCode = 0
    /\ TimeInit

(***************************************************************************)
(* getCommand.                                                             *)
(***************************************************************************)
Put(c) == commandBuffer' = [commandBuffer EXCEPT ![i] = c]

Type ==
    /\ pc = "line" /\ i < Size
    /\ \E c \in Letters \cup {Space} :
         /\ Put(IF c = Space THEN Nul ELSE c)
         /\ shown' = Append(shown, c)
    /\ i' = i + 1
    /\ UNCHANGED <<pc, procVars, exitCode, timeVars>>

\* i-- twice, and the loop's i++.  Mistake: i-- once.
DeleteOne(k) == k
Deleted(k) == k - 1

Delete ==
    /\ pc = "line" /\ i < Size
    /\ IF i = 0
       THEN pc' = "outside" /\ UNCHANGED lineVars
       ELSE /\ commandBuffer' = [commandBuffer EXCEPT ![i] = Nul, ![i - 1] = Nul]
            /\ i' = Deleted(i)
            /\ shown' = Front(shown)
            /\ UNCHANGED pc
    /\ UNCHANGED <<procVars, exitCode, timeVars>>

Enter ==
    /\ pc = "line" /\ i < Size
    /\ Put(Nul)
    /\ pc' = "process"
    /\ UNCHANGED <<i, shown, procVars, exitCode, timeVars>>

\* The loop ends without a newline.
LineFull ==
    /\ pc = "line" /\ i = Size
    /\ pc' = "process"
    /\ UNCHANGED <<lineVars, procVars, exitCode, timeVars>>

-----------------------------------------------------------------------------
(***************************************************************************)
(* processCommand and runCommand.                                          *)
(***************************************************************************)
\* cmdCheck compares up to the end of both; a full buffer has no end.
cmdCheck(name) ==
    /\ \A k \in 0..(Len(name) - 1) : commandBuffer[k] = name[k + 1]
    /\ commandBuffer[Len(name)] = Nul

Entered == {c \in Commands : cmdCheck(Names[c])}

\* createProc: null unless the shell may have children.  The permissions are
\* the shell's own, so they are never too high.
Create ==
    /\ pc = "process"
    /\ child
    /\ \E c \in Entered \ {"shutdown"} : command' = c
    /\ allocated' = allocated + 1
    /\ state' = "created"
    /\ pc' = "run"
    /\ UNCHANGED <<lineVars, child, exitCode, timeVars>>

NewLine ==
    /\ pc' = "line" /\ i' = 0 /\ shown' = <<>>
    /\ UNCHANGED commandBuffer

\* CURRENT_COMMAND is null.  shutdown writes to a port first, and goes on.
NotFound ==
    /\ pc = "process"
    /\ ~ child \/ Entered \subseteq {"shutdown"}
    /\ exitCode' = -127
    /\ NewLine
    /\ UNCHANGED <<procVars, timeVars>>

Run ==
    /\ pc = "run" /\ state = "created"
    /\ state' = "FOREGROUND"
    /\ IF command = "time" THEN readRTC /\ pc' = "time"
       ELSE /\ pc' = IF command = "debug" THEN "debug" ELSE "run"
            /\ UNCHANGED timeVars
    /\ UNCHANGED <<lineVars, command, allocated, child, exitCode>>

KeepState(s) == s
Stopped(s) == "STOPPED"

\* The command returns to runProc.
Returns(code) ==
    /\ exitCode' = code
    /\ state' = Stopped(state)
    /\ pc' = "kill"
    /\ UNCHANGED <<lineVars, command, allocated, child>>

End ==
    /\ pc = "run" /\ state = "FOREGROUND"
    /\ \E code \in IF command \in NoReturn THEN {0, 1, -127} ELSE {0} : Returns(code)
    /\ UNCHANGED timeVars

EndTime == pc = "time" /\ Forget /\ Returns(0)

\* debug takes its message from the buffer behind its name; if there is none
\* it asks for it.
Debug ==
    /\ pc = "debug"
    /\ IF commandBuffer[Len(Names["debug"]) + 1] # Nul THEN Returns(0)
       ELSE /\ pc' = "message" /\ i' = 0
            /\ UNCHANGED <<commandBuffer, shown, procVars, exitCode>>
    /\ UNCHANGED timeVars

(***************************************************************************)
(* getLine, which knows no deleting; what it reads is only printed.        *)
(***************************************************************************)
TypeMessage ==
    /\ pc = "message" /\ i < Size
    /\ i' = i + 1
    /\ UNCHANGED <<commandBuffer, shown, pc, procVars, exitCode, timeVars>>

EnterMessage ==
    /\ pc = "message" /\ i < Size
    /\ Returns(0)
    /\ UNCHANGED timeVars

\* The loop ends without a newline, and getLine without a result.
MessageFull ==
    /\ pc = "message" /\ i = Size
    /\ pc' = "outside"
    /\ UNCHANGED <<lineVars, procVars, exitCode, timeVars>>

\* killProc frees what has stopped.
Kill ==
    /\ pc = "kill"
    /\ IF state = "STOPPED" THEN allocated' = allocated - 1 /\ state' = "none"
       ELSE UNCHANGED <<allocated, state>>
    /\ command' = "none"
    /\ NewLine
    /\ UNCHANGED <<child, exitCode, timeVars>>

Read == Reading /\ UNCHANGED <<lineVars, pc, procVars, exitCode>>

Update == Clock /\ UNCHANGED <<lineVars, pc, procVars, exitCode>>

Serve == \/ LineFull \/ Create \/ NotFound \/ Run
         \/ End \/ EndTime \/ Debug \/ MessageFull \/ Kill \/ Read

\* What the user does.
Keys == Type \/ Delete \/ Enter \/ TypeMessage \/ EnterMessage

Next == Keys \/ Serve \/ Update

\* The user may stop typing, in a line and in a message; the shell and an
\* update, once begun, go on.
Spec == Init /\ [][Next]_vars /\ WF_vars(Serve) /\ WF_vars(EndUpdate /\ Update)

-----------------------------------------------------------------------------
(***************************************************************************)
(* Properties.                                                             *)
(***************************************************************************)
\* The word the line starts with, as the user sees it.
ShownWord ==
    LET Ends == {k \in 0..Len(shown) : k = Len(shown) \/ shown[k + 1] = Space}
    IN  SubSeq(shown, 1, CHOOSE k \in Ends : \A j \in Ends : k <= j)

\* The command that runs is the one the line shows, whatever was deleted and
\* whatever earlier lines left in the buffer; if none runs the line shows none
\* that could.
RunsWhatIsShown ==
    /\ command # "none" => Names[command] = ShownWord
    /\ pc = "process" /\ Entered = {} => \A c \in Commands : Names[c] # ShownWord

\* Between commands no process is left, whatever the last one was.
NothingLeft == pc \in {"line", "process"} => allocated = 0

\* Every line is answered, the time included: the shell comes to read the next
\* one, unless the user does not finish the message that debug asks for or
\* makes it too long.
Answered ==
    (pc = "process") ~> (pc \in {"line", "outside"} \/ [](pc = "message"))
=============================================================================
