------------------------------ MODULE TestBench ------------------------------
(***************************************************************************)
(* Assignment1/as1_testbench.c: it writes a random input, runs the program *)
(* under test on it, and compares its output with the input.  All runs of  *)
(* the testbench use the same two files, and leave them there when a test  *)
(* fails; run with one seed (-s), they make the same inputs.               *)
(*                                                                         *)
(* An input has two halves.  The program under test, which may be any,     *)
(* opens its output as it likes or not at all, copies none, one or both    *)
(* halves, and ends one way or another.                                    *)
(***************************************************************************)
EXTENDS CourseProgram

CONSTANTS
  Benches,   \* runs of the testbench in one directory, all with one seed: positive numbers
  Tests      \* how each test gives the program its files: "file" or "pipe"

Programs == {"as1_testbench"}
Over == {"passed", "failed", "crashed"}
Program(b) == -b    \* the program that bench b runs
Actors == Benches \cup {Program(b) : b \in Benches}

Init ==
  /\ program \in Programs
  /\ at = [p \in Actors |-> IF p \in Benches THEN "start" ELSE "none"]
  /\ os = [file |-> <<>>,                                         \* the contents of the files
           named |-> [testfile1234 |-> 0, testfile2345 |-> 0]]    \* the file of each name; 0: none
  /\ local = [test |-> [b \in Benches |-> 1],
              ifd |-> [b \in Benches |-> 0], ofd |-> [b \in Benches |-> 0],   \* of the program
              overlapped |-> [b \in Benches |-> FALSE],   \* history: another bench ran at the same time
              kept |-> [b \in Benches |-> FALSE]]         \* history: a program gave it no output of its own
  /\ sent = [b \in Benches |-> <<>>]    \* the inputs it has made
  /\ got = [b \in Benches |-> <<>>]     \* the inputs that were copied to the end

inputfile == "testfile1234"
outputfile == "testfile2345"

\* The input of each test of this seed.
Input(t) == <<<<t, "first half">>, <<t, "second half">>>>

\* open with O_CREAT and O_TRUNC, and without O_TRUNC.
Created(name) ==
  IF os.named[name] = 0
  THEN [os EXCEPT !.file = Append(@, <<>>), !.named[name] = Len(os.file) + 1]
  ELSE os
Truncated(name) == [Created(name) EXCEPT !.file[Created(name).named[name]] = <<>>]

\* The text that is there after a write at the start of a file.
Overwrite(text, old) == text \o SubSeq(old, Len(text) + 1, Len(old))

Running(b) == at[b] \notin Over \cup {"start"}

Begin(b) ==
  /\ Go(b, "start", "generate")
  /\ local' = [local EXCEPT !.overlapped =
       [c \in Benches |-> @[c] \/ (c = b /\ \E d \in Benches : Running(d)) \/ Running(c)]]
  /\ UNCHANGED <<program, os, sent, got>>

\* generate_random_file: open, then write.
generate_random_file(b) ==
  \/ /\ Go(b, "generate", "write") /\ os' = Truncated(inputfile)
     /\ local' = [local EXCEPT !.ifd[b] = os'.named[inputfile]] /\ UNCHANGED <<program, sent, got>>
  \/ /\ Go(b, "write", "fork") /\ os' = [os EXCEPT !.file[local.ifd[b]] = Overwrite(Input(local.test[b]), @)]
     /\ sent' = [sent EXCEPT ![b] = Append(@, local.test[b])] /\ UNCHANGED <<program, local, got>>

\* fork, and waitpid in the parent.
Fork(b) ==
  /\ at[b] = "fork" /\ UNCHANGED <<program, os, local, sent, got>>
  /\ \/ at' = [at EXCEPT ![b] = "wait", ![Program(b)] = "open input"]
     \/ at' = [at EXCEPT ![b] = "failed"]

\* Mutant: with WNOHANG, which leaves cret at 0.
WaitNot(b) == Go(b, "wait", "compare") /\ UNCHANGED <<program, os, local, sent, got>>

\* cret: the test fails on any status but 0.
Wait(b) ==
  /\ \/ Go(b, "wait", "compare") /\ at[Program(b)] = "exit 0"
     \/ Go(b, "wait", "failed") /\ at[Program(b)] = "exit not 0"
  /\ UNCHANGED <<program, os, local, sent, got>>

\* compare_file: fgetc on a file that fopen has not found crashes.
compare_file(b) ==
  /\ LET a == os.named[inputfile]
         o == os.named[outputfile]
     IN  Go(b, "compare", IF a = 0 \/ o = 0 THEN "crashed" ELSE IF os.file[a] = os.file[o] THEN "unlink input" ELSE "failed")
  /\ UNCHANGED <<program, os, local, sent, got>>

Unlink(b, name, from, to) ==
  /\ Go(b, from, to) /\ os' = [os EXCEPT !.named[name] = 0] /\ UNCHANGED <<program, local, sent, got>>

\* The loops of test_files and test_pipes, and main's.
NextTest(b) ==
  /\ Go(b, "next", IF local.test[b] = Len(Tests) THEN "passed" ELSE "generate")
  /\ local' = [local EXCEPT !.test[b] = Least(@ + 1, Len(Tests))] /\ UNCHANGED <<program, os, sent, got>>

test(b) ==
  \/ Begin(b) \/ generate_random_file(b) \/ Fork(b) \/ Wait(b) \/ compare_file(b)
  \/ Unlink(b, inputfile, "unlink input", "unlink output")
  \/ Unlink(b, outputfile, "unlink output", "next")
  \/ NextTest(b)

----------------------------------------------------------------------------
(* The child, which opens the files before it runs the program ("pipe") or *)
(* leaves that to the program ("file"; as1_mockup.c)                       *)

Kind(b) == Tests[local.test[b]]

OpenInput(b) ==
  /\ at[Program(b)] = "open input" /\ UNCHANGED <<program, os, sent, got>>
  /\ local' = [local EXCEPT !.ifd[b] = os.named[inputfile]]
  /\ \/ at' = [at EXCEPT ![Program(b)] = "open output"]
     \/ Kind(b) = "file" /\ os.named[inputfile] = 0 /\ at' = [at EXCEPT ![Program(b)] = "exit not 0"]

\* What a program that opens its output itself may do to it before it writes.
Choices == {Truncated(outputfile), Created(outputfile), os}

\* The program begins, with the output opened for it, or by it, or with none; one that opens
\* it itself ("file") may find text there and keep it.
OpenOutput(b) ==
  /\ Go(Program(b), "open output", "exec")
  /\ os' \in IF Kind(b) = "file" THEN Choices ELSE {Truncated(outputfile)}
  /\ LET o == os'.named[outputfile]
     IN  local' = [local EXCEPT !.ofd[b] = o,
                                !.kept[b] = @ \/ (Kind(b) = "file" /\ (o = 0 \/ os'.file[o] # <<>>))]
  /\ UNCHANGED <<program, sent, got>>

\* execl fails, and the child exits with 1.
ExecFails(b) ==
  /\ Go(Program(b), IF Kind(b) = "file" THEN "open input" ELSE "exec", "exit not 0")
  /\ UNCHANGED <<program, os, local, sent, got>>

\* The program copies what it copies; with no output, nothing.
Copy(b) ==
  LET in == IF local.ifd[b] = 0 \/ local.ofd[b] = 0 THEN <<>> ELSE os.file[local.ifd[b]]
  IN  \E n \in 0 .. Len(in) :
        /\ Go(Program(b), "exec", "exit")
        /\ os' = IF local.ofd[b] = 0 THEN os ELSE [os EXCEPT !.file[local.ofd[b]] = Overwrite(SubSeq(in, 1, n), @)]
        /\ got' = IF n = Len(Input(1)) THEN [got EXCEPT ![b] = Append(@, in[1][1])] ELSE got
        /\ UNCHANGED <<program, local, sent>>

Exit(b) ==
  /\ at[Program(b)] = "exit" /\ UNCHANGED <<program, os, local, sent, got>>
  /\ \E status \in {"exit 0", "exit not 0"} : at' = [at EXCEPT ![Program(b)] = status]

child(b) == OpenInput(b) \/ OpenOutput(b) \/ ExecFails(b) \/ Copy(b) \/ Exit(b)

----------------------------------------------------------------------------
Step(p) == IF p \in Benches THEN test(p) ELSE child(-p)

Next == \E p \in Actors : Step(p)

----------------------------------------------------------------------------
(* Properties                                                              *)

\* A testbench that nobody else used the files of while it ran goes on to the next test
\* only when this one's input was copied, whatever an earlier run has left there; and it
\* does not crash.  Except for a program that leaves it no output, or adds to what it
\* finds there: neither test_file nor compare_file (as1_testbench.c:49-55, 145) expects one.
InOrder ==
  \A b \in Benches : ~local.overlapped[b] /\ ~local.kept[b] =>
    /\ at[b] \in {"next", "passed", "unlink input", "unlink output"} => got[b] = sent[b]
    /\ at[b] = "passed" => Len(sent[b]) = Len(Tests)
    /\ at[b] # "crashed"

\* Every testbench ends.
Settled == \A b \in Benches : at[b] \in Over
=============================================================================
