----------------------------- MODULE BytecodeMachine -----------------------------
(***************************************************************************)
(* The virtual machine of src/src/interpreter_exec.cpp on the code that    *)
(* BytecodeBuild makes of a program.  The stack is one row of words: of    *)
(* each call the return address, the caller's frame pointer and the block, *)
(* then arguments, locals and operands.  An address is a place in it,      *)
(* counted from 0.                                                         *)
(***************************************************************************)
EXTENDS BytecodeBuild

CONSTANT Images        \* compiled programs, each with what it means to print

VARIABLES
    image,      \* the blocks of the program, see Build
    ip,         \* where the next instruction is
    fp,         \* the first word of the current frame
    stack,      \* all words below the operand stack pointer
    liveFp,     \* ExeBlock.liveFp of each block
    out,        \* what has been printed
    halted,     \* HALT has been executed
    meant       \* what the program means to print (not in the code)

vars == <<image, ip, fp, stack, liveFp, out, halted, meant>>

NoFrame == -1

Zeros(n) == [i \in 1 .. n |-> 0]

\* exec starts with a call from nowhere: its return address is the trap, a
\* HALT.  The frame of the unit is as large as its locals twice over.
Init ==
    \E c \in Images :
        /\ image = c.image
        /\ meant = c.meant
        /\ ip = image.base[0]
        /\ fp = 3
        /\ stack = Zeros(3 + image.fixed[0] + image.locals[0])
        /\ liveFp = [f \in DOMAIN image.base |-> IF f = 0 THEN 3 ELSE NoFrame]
        /\ out = <<>>
        /\ halted = FALSE

Cell(k)    == image.text[ip + 1 + k]
Op         == Cell(0).op
Operand(k) == Cell(k).arg
Top(k)     == stack[Len(stack) + 1 - k]
Drop(k)    == SubSeq(stack, 1, Len(stack) - k)
Word(a)    == stack[a + 1]

\* An instruction of so many operands, after which the stack is s.
Does(op, operands, s) ==
    /\ ~halted
    /\ Op = op
    /\ ip' = ip + 1 + operands
    /\ stack' = s
    /\ UNCHANGED <<image, fp, liveFp, out, halted, meant>>

\* The word a GET, SET or LEA is about.
Local  == fp + Operand(1)
Global == LET def == image.where[Cell(1).ref] IN liveFp[def.exe] + def.off

Written(a, k) == [Drop(k) EXCEPT ![a + 1] = Top(1)]

OC_PUSH    == Does("PUSH", 1, Append(stack, Operand(1)))
OC_GET     == \/ Does("GET", 1, Append(stack, Word(Local)))
              \/ Does("GET_GLOBAL", 1, Append(stack, Word(Global)))
OC_LEA     == \/ Does("LEA", 1, Append(stack, Local))
              \/ Does("LEA_GLOBAL", 1, Append(stack, Global))
OC_SET     == \/ Does("SET", 1, Written(Local, 1))
              \/ Does("SET_GLOBAL", 1, Written(Global, 1))
OC_LOAD    == Does("LOAD", 0, Append(Drop(1), Word(Top(1))))
OC_STORE   == Does("STORE", 0, Written(Top(2), 2))
OC_PTR_IDX == Does("PTR_IDX", 1, Append(Drop(2), Top(2) + Top(1) * Operand(1)))
OC_POP     == Does("POP", 0, Drop(1))
OC_DUP     == \/ Does("DUP", 0, Append(stack, Top(1)))
              \/ Does("DUP_N", 1, stack \o SubSeq(stack, Len(stack) - Operand(1) + 1, Len(stack)))
OC_SWAP    == Does("SWAP", 0, Drop(2) \o <<Top(1), Top(2)>>)
\* The new words hold what the stack held there before; a call overwrites them.
OC_GROW    == Does("GROW", 1, stack \o Zeros(Operand(1)))
OC_BOOL    == Does("BOOL", 0, Append(Drop(1), Truth(Top(1) # 0)))

\* binaryDiv takes the stack pointer by value: the quotient goes where the
\* dividend was and the divisor stays above it.
Calculated(op) ==
    LET ans == Apply(op, Top(2), Top(1))
    IN  IF op = "DIV" THEN Drop(2) \o <<ans, Top(1)>> ELSE Append(Drop(2), ans)
OC_BINARY == \E op \in {"ADD", "DIV", "LT", "LE", "GT", "GE", "EQ"} : Does(op, 0, Calculated(op))

--------------------------------------------------------------------------------
Goes(to, s) ==
    /\ ip' = to
    /\ stack' = s
    /\ UNCHANGED <<image, liveFp, halted, meant>>

OC_JUMP ==
    /\ ~halted
    /\ Op = "JUMP"
    /\ Goes(ip + Operand(1), stack)
    /\ UNCHANGED <<fp, out>>

OC_JUMP_IF ==
    /\ ~halted
    /\ Op \in {"JUMP_IF_TRUE", "JUMP_IF_FALSE"}
    /\ Goes(IF (Op = "JUMP_IF_TRUE") = (Top(1) # 0) THEN ip + Operand(1) ELSE ip + 2, Drop(1))
    /\ UNCHANGED <<fp, out>>

OC_JUMP_TABLE ==
    /\ ~halted
    /\ Op = "JUMP_TABLE"
    /\ LET lo   == Operand(1)
           hi   == Operand(2)
           cell == IF Top(1) \in lo .. hi THEN 3 + Top(1) - lo ELSE 3 + hi - lo + 1
       IN  Goes(ip + Operand(cell), Drop(1))
    /\ UNCHANGED <<fp, out>>

\* A function the VM runs itself: print takes the number of its arguments from
\* the top, and everything from the three empty slots on is dropped.
OC_CALL_print ==
    /\ ~halted
    /\ Op = "CALL"
    /\ Operand(1) = PrintFcn
    /\ Goes(ip + 3, Drop(3 + 2 * Top(1) + 4))
    /\ out' = Append(out, Top(2))
    /\ UNCHANGED fp

\* The arguments are on the stack, above three empty slots: the locals are put
\* above them and the slots filled.  liveFp becomes the frame of the caller.
OC_CALL ==
    /\ ~halted
    /\ Op = "CALL"
    /\ Operand(1) # PrintFcn
    /\ LET f   == Operand(1)
           new == Len(stack) + image.locals[f] - image.fixed[f]
       IN  /\ stack' = [stack EXCEPT ![new - 2] = ip + 3, ![new - 1] = fp, ![new] = f]
                       \o Zeros(image.locals[f])
           /\ fp' = new
           /\ ip' = image.base[f]
           /\ liveFp' = [liveFp EXCEPT ![f] = fp]
    /\ UNCHANGED <<image, out, halted, meant>>

OC_RET ==
    /\ ~halted
    /\ Op = "RET"
    /\ LET result == SubSeq(stack, Len(stack) - Operand(1) + 1, Len(stack))
       IN  Goes(stack[fp - 2], SubSeq(stack, 1, fp - 3) \o result)
    /\ fp' = stack[fp - 1]
    /\ UNCHANGED out

OC_HALT ==
    /\ ~halted
    /\ Op = "HALT"
    /\ halted' = TRUE
    /\ UNCHANGED <<image, ip, fp, stack, liveFp, out, meant>>

Next ==
    \/ OC_PUSH \/ OC_GET \/ OC_LEA \/ OC_SET \/ OC_LOAD \/ OC_STORE \/ OC_PTR_IDX
    \/ OC_POP \/ OC_DUP \/ OC_SWAP \/ OC_GROW \/ OC_BOOL \/ OC_BINARY
    \/ OC_JUMP \/ OC_JUMP_IF \/ OC_JUMP_TABLE
    \/ OC_CALL_print \/ OC_CALL \/ OC_RET \/ OC_HALT

\* The interpreter's loop never pauses.
Spec == Init /\ [][Next]_vars /\ WF_vars(Next)

--------------------------------------------------------------------------------
TypeOK ==
    /\ ip \in 0 .. Len(image.text) - 1
    /\ Op # ""
    /\ \A i \in DOMAIN stack : stack[i] \in Int
    /\ \A f \in DOMAIN liveFp : liveFp[f] \in {NoFrame} \cup Nat
    /\ halted \in BOOLEAN

\* The positions a jump at position a can lead to.
Targets(a) ==
    LET cell(k) == image.text[a + 1 + k].arg
    IN  CASE image.text[a + 1].op \in {"JUMP", "JUMP_IF_TRUE", "JUMP_IF_FALSE"} -> {a + cell(1)}
          [] image.text[a + 1].op = "JUMP_TABLE" ->
                {a + cell(k) : k \in 3 .. 3 + cell(2) - cell(1) + 1}
          [] OTHER -> {}

\* Every jump of every block, also one that no run takes, leads to the first cell
\* of an instruction of the same block: no placeholder, list of pending jumps or
\* cell of a jump table is left unpatched or is patched twice.
JumpsLand ==
    \A f \in DOMAIN image.base :
        LET own == image.base[f] .. image.base[f] + image.size[f] - 1
        IN  \A a \in own : \A t \in Targets(a) : t \in own /\ image.text[t + 1].op # ""

\* Wherever a statement starts or a scope ends the operand stack holds exactly
\* the words that the loops around that place keep, however control got there:
\* break, continue, a case, a return or a round of a loop leave nothing behind
\* and take nothing away.
Balanced ==
    \A m \in image.kept :
        m.at = ip /\ m.exe = Word(fp - 1) => Len(stack) = fp + image.fixed[m.exe] + m.words
                                  + (IF m.exe = 0 THEN image.locals[0] ELSE 0)

\* The code is sound wherever it is entered: jumps land on instructions of their
\* block, and the stack has the depth the place calls for.
Sound == TypeOK /\ JumpsLand /\ Balanced

\* The compiled program does what the syntax tree means: prints those values in
\* that order and halts.
Meant == INSTANCE MeantRun WITH shown <- out, ended <- halted
RunsAsMeant == Meant!Spec
================================================================================
