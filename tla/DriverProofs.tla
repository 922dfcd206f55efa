----------------------------- MODULE DriverProofs ----------------------------
(***************************************************************************)
(* Proofs about Driver, for every file system, argument, environment and   *)
(* way other processes change the files.                                   *)
(*                                                                         *)
(* The inductive invariant follows main() from label to label: which of    *)
(* its locals are set, what the output holds until it is flushed, and that *)
(* nobody else gets at the two files that main() has open.                 *)
(***************************************************************************)
EXTENDS Driver, SequenceTheorems, TLAPS

Opening == {"arguments", "input path", "input check", "input file", "output path",
            "output file"}
Compiling == {"generator", "generate", "return"}

\* Which locals of main() are set at its labels.
LocalsInv ==
    /\ pc \in Opening \cup Compiling
    /\ pc \in {"input check", "input file"} => inPath \in Names
    /\ pc \in {"output path", "output file"} \cup Compiling => inFile \in Inodes \cup {"directory"}
    /\ pc = "output file" => outPath \in Names
    /\ IF pc \in Opening THEN outFile = None ELSE outFile \in Inodes \cup {"stdout"}
    /\ args = [file |-> args.file, output |-> args.output, stdout |-> args.stdout]
    /\ args.stdout \in BOOLEAN
    /\ outFile \in Inodes => ~args.stdout

\* What is in the files and on its way to them.
OutputInv ==
    /\ data = [i \in Inodes |-> data[i]] /\ given = [i \in Inodes |-> given[i]]
    /\ \A i \in Inodes \ {outFile} : data[i] = given[i]
    /\ status # "success" => /\ stdout = << >> /\ ~lost
                             /\ outFile \in Inodes => data[outFile] = << >>
    /\ status = "running" =>
            unflushed = IF pc = "return" THEN Translation(program) ELSE << >>

\* The text that was parsed is the one that a user wrote.
ProgramInv ==
    pc \in {"generate", "return"} =>
        /\ Compiles(program)
        /\ inFile # outFile => program = Source

DriverInv == DriverTypeOK /\ LocalsInv /\ OutputInv /\ ProgramInv /\ SuccessIsTranslated

-----------------------------------------------------------------------------
(* Steps that change no file                                                *)

\* fail() and std::terminate() end the run before anything was flushed.
LEMMA EndStep ==
    ASSUME DriverInv, status = "running", pc # "return", Fail \/ Abort
    PROVE  DriverInv'
<1>1. /\ pc' = pc /\ status' \in {"failure", "aborted"}
      /\ UNCHANGED fs /\ UNCHANGED locals /\ lost' = lost
  BY DEF Fail, Abort, output
<1>2. /\ entry' = entry /\ data' = data /\ given' = given /\ args' = args
      /\ inPath' = inPath /\ outPath' = outPath /\ inFile' = inFile /\ outFile' = outFile
      /\ program' = program
  BY <1>1 DEF fs, locals
<1>3. stdout' = << >>
  <2>1. stdout = << >> /\ unflushed = << >>
    BY DEF DriverInv, OutputInv
  <2>2. << >> \o << >> = << >>
    OBVIOUS
  <2> QED
    BY <2>1, <2>2 DEF Fail, Abort, output
<1>4. DriverTypeOK' /\ LocalsInv'
  BY <1>1, <1>2 DEF DriverInv, DriverTypeOK, LocalsInv
<1>5. OutputInv'
  BY <1>1, <1>2, <1>3 DEF DriverInv, OutputInv
<1>6. ProgramInv' /\ SuccessIsTranslated'
  BY <1>1, <1>2 DEF DriverInv, ProgramInv, SuccessIsTranslated, Source
<1> QED
  BY <1>4, <1>5, <1>6 DEF DriverInv

\* main() goes on, and leaves the files and the output alone.
LEMMA GoOn ==
    ASSUME DriverInv, status = "running", status' = "running",
           UNCHANGED fs, UNCHANGED output, outFile' = outFile,
           pc \notin {"generate", "return"}, pc' # "return",
           inPath' \in Names \cup {None}, outPath' \in Names \cup {None},
           LocalsInv', ProgramInv'
    PROVE  DriverInv'
<1>1. /\ entry' = entry /\ data' = data /\ given' = given
      /\ unflushed' = unflushed /\ stdout' = stdout /\ lost' = lost
  BY DEF fs, output
<1>2. DriverTypeOK'
  BY <1>1 DEF DriverInv, DriverTypeOK, LocalsInv, Opening, Compiling
<1>3. OutputInv'
  BY <1>1 DEF DriverInv, OutputInv
<1>4. SuccessIsTranslated'
  BY DEF SuccessIsTranslated
<1> QED
  BY <1>2, <1>3, <1>4 DEF DriverInv

LEMMA ParseArgumentsStep == DriverInv /\ ParseArguments => DriverInv'
<1> SUFFICES ASSUME DriverInv, ParseArguments PROVE DriverInv'
  OBVIOUS
<1>1. status = "running" /\ pc = "arguments"
  BY DEF ParseArguments, At
<1>2. CASE Fail
  BY <1>1, <1>2, EndStep
<1>3. CASE /\ GoTo("input path")
           /\ args' = [args EXCEPT !.output = IF @ = None THEN Default ELSE @]
           /\ UNCHANGED <<fs, env, inPath, outPath, inFile, outFile, program, output>>
  <2>1. /\ pc' = "input path" /\ status' = "running" /\ UNCHANGED fs /\ UNCHANGED output
        /\ inPath' = inPath /\ outPath' = outPath /\ outFile' = outFile
    BY <1>3 DEF GoTo
  <2>2. /\ args' = [file |-> args'.file, output |-> args'.output, stdout |-> args'.stdout]
        /\ args'.stdout = args.stdout
    BY <1>3 DEF DriverInv, LocalsInv
  <2>3. LocalsInv'
    BY <2>1, <2>2, <1>1 DEF DriverInv, LocalsInv, Opening, Compiling
  <2>4. inPath' \in Names \cup {None} /\ outPath' \in Names \cup {None}
    BY <2>1 DEF DriverInv, DriverTypeOK
  <2>5. ProgramInv'
    BY <2>1 DEF ProgramInv
  <2> QED
    BY <2>1, <2>3, <2>4, <2>5, <1>1, GoOn
<1> QED
  BY <1>2, <1>3 DEF ParseArguments

\* A path that is there has a name.
LEMMA ResolvedName ==
    ASSUME NEW path, Resolved(path) # None
    PROVE  Resolved(path) \in Names
BY DEF Resolved, Canonical, Names

LEMMA SanitizeInputStep == DriverInv /\ SanitizeInput => DriverInv'
<1> SUFFICES ASSUME DriverInv, SanitizeInput PROVE DriverInv'
  OBVIOUS
<1>1. status = "running" /\ pc = "input path"
  BY DEF SanitizeInput, At
<1>2. CASE SanitizeFails(args.file)
  BY <1>1, <1>2, EndStep DEF SanitizeFails
<1>3. CASE /\ Resolved(args.file) # None
           /\ GoTo("input check")
           /\ inPath' = Resolved(args.file)
           /\ UNCHANGED <<fs, env, args, outPath, inFile, outFile, program, output>>
  <2>1. /\ pc' = "input check" /\ status' = "running" /\ UNCHANGED fs /\ UNCHANGED output
        /\ inPath' \in Names /\ outPath' = outPath /\ outFile' = outFile /\ args' = args
    BY <1>3, ResolvedName DEF GoTo
  <2>2. LocalsInv'
    BY <2>1, <1>1 DEF DriverInv, LocalsInv, Opening, Compiling
  <2>3. outPath' \in Names \cup {None}
    BY <2>1 DEF DriverInv, DriverTypeOK
  <2>4. ProgramInv'
    BY <2>1 DEF ProgramInv
  <2> QED
    BY <2>1, <2>2, <2>3, <2>4, <1>1, GoOn
<1> QED
  BY <1>2, <1>3 DEF SanitizeInput

LEMMA CheckInputStep == DriverInv /\ CheckInput => DriverInv'
<1> SUFFICES ASSUME DriverInv, CheckInput PROVE DriverInv'
  OBVIOUS
<1>1. status = "running" /\ pc = "input check"
  BY DEF CheckInput, At
<1>2. CASE Fail
  BY <1>1, <1>2, EndStep
<1>3. CASE GoTo("input file") /\ UNCHANGED <<fs, locals, output>>
  <2>1. /\ pc' = "input file" /\ status' = "running" /\ UNCHANGED fs /\ UNCHANGED output
        /\ inPath' = inPath /\ outPath' = outPath /\ outFile' = outFile /\ args' = args
    BY <1>3 DEF GoTo, locals
  <2>2. LocalsInv'
    BY <2>1, <1>1 DEF DriverInv, LocalsInv, Opening, Compiling
  <2>3. inPath' \in Names \cup {None} /\ outPath' \in Names \cup {None}
    BY <2>1 DEF DriverInv, DriverTypeOK
  <2>4. ProgramInv'
    BY <2>1 DEF ProgramInv
  <2> QED
    BY <2>1, <2>2, <2>3, <2>4, <1>1, GoOn
<1> QED
  BY <1>2, <1>3 DEF CheckInput

LEMMA OpenInputStep == DriverInv /\ OpenInput => DriverInv'
<1> SUFFICES ASSUME DriverInv, OpenInput PROVE DriverInv'
  OBVIOUS
<1>1. status = "running" /\ pc = "input file"
  BY DEF OpenInput, At
<1>2. CASE Fail
  BY <1>1, <1>2, EndStep
<1>3. CASE /\ entry[inPath] # None
           /\ GoTo("output path")
           /\ inFile' = entry[inPath]
           /\ UNCHANGED <<fs, env, args, inPath, outPath, outFile, program, output>>
  <2>1. /\ pc' = "output path" /\ status' = "running" /\ UNCHANGED fs /\ UNCHANGED output
        /\ inPath' = inPath /\ outPath' = outPath /\ outFile' = outFile /\ args' = args
    BY <1>3 DEF GoTo
  <2>2. inFile' \in Inodes \cup {"directory"}
    BY <1>1, <1>3 DEF DriverInv, LocalsInv, DriverTypeOK
  <2>3. LocalsInv'
    BY <2>1, <2>2, <1>1 DEF DriverInv, LocalsInv, Opening, Compiling
  <2>4. inPath' \in Names \cup {None} /\ outPath' \in Names \cup {None}
    BY <2>1 DEF DriverInv, DriverTypeOK
  <2>5. ProgramInv'
    BY <2>1 DEF ProgramInv
  <2> QED
    BY <2>1, <2>3, <2>4, <2>5, <1>1, GoOn
<1> QED
  BY <1>2, <1>3 DEF OpenInput

LEMMA SanitizeOutputStep == DriverInv /\ SanitizeOutput => DriverInv'
<1> SUFFICES ASSUME DriverInv, SanitizeOutput PROVE DriverInv'
  OBVIOUS
<1>1. status = "running" /\ pc = "output path"
  BY DEF SanitizeOutput, At
<1>2. CASE SanitizeFails(args.output)
  BY <1>1, <1>2, EndStep DEF SanitizeFails
<1>3. CASE /\ Resolved(args.output) # None
           /\ GoTo("output file")
           /\ outPath' = Resolved(args.output)
           /\ UNCHANGED <<fs, env, args, inPath, inFile, outFile, program, output>>
  <2>1. /\ pc' = "output file" /\ status' = "running" /\ UNCHANGED fs /\ UNCHANGED output
        /\ outPath' \in Names /\ inPath' = inPath /\ outFile' = outFile /\ args' = args
        /\ inFile' = inFile
    BY <1>3, ResolvedName DEF GoTo
  <2>2. LocalsInv'
    BY <2>1, <1>1 DEF DriverInv, LocalsInv, Opening, Compiling
  <2>3. inPath' \in Names \cup {None}
    BY <2>1 DEF DriverInv, DriverTypeOK
  <2>4. ProgramInv'
    BY <2>1 DEF ProgramInv
  <2> QED
    BY <2>1, <2>2, <2>3, <2>4, <1>1, GoOn
<1> QED
  BY <1>2, <1>3 DEF SanitizeOutput

\* What is read is what a user wrote, as long as the input is not the output.
LEMMA ConstructGeneratorStep == DriverInv /\ ConstructGenerator => DriverInv'
<1> SUFFICES ASSUME DriverInv, ConstructGenerator PROVE DriverInv'
  OBVIOUS
<1>1. status = "running" /\ pc = "generator"
  BY DEF ConstructGenerator, Parse, At
<1>2. CASE Fail
  BY <1>1, <1>2, EndStep
<1>3. CASE /\ Compiles(Read(inFile))
           /\ GoTo("generate")
           /\ program' = Read(inFile)
           /\ UNCHANGED <<fs, env, args, inPath, outPath, inFile, outFile, output>>
  <2>1. /\ pc' = "generate" /\ status' = "running" /\ UNCHANGED fs /\ UNCHANGED output
        /\ inPath' = inPath /\ outPath' = outPath /\ inFile' = inFile /\ outFile' = outFile
        /\ args' = args
    BY <1>3 DEF GoTo
  <2>2. LocalsInv'
    BY <2>1, <1>1 DEF DriverInv, LocalsInv, Opening, Compiling
  <2>3. inPath' \in Names \cup {None} /\ outPath' \in Names \cup {None}
    BY <2>1 DEF DriverInv, DriverTypeOK
  <2>4. ProgramInv'
    <3>1. Compiles(program')
      BY <1>3 DEF Compiles
    <3>2. inFile # outFile => Read(inFile) = Source
      BY DEF Read, Source, DriverInv, OutputInv
    <3>3. Source' = Source
      BY <2>1 DEF Source, fs
    <3> QED
      BY <3>1, <3>2, <3>3, <2>1, <1>3 DEF ProgramInv, Compiles
  <2> QED
    BY <2>1, <2>2, <2>3, <2>4, <1>1, GoOn
<1> QED
  BY <1>2, <1>3 DEF ConstructGenerator, Parse

-----------------------------------------------------------------------------
(* Steps that change a file                                                 *)

LEMMA OpenOutputStep == DriverInv /\ OpenOutput => DriverInv'
<1> SUFFICES ASSUME DriverInv, OpenOutput PROVE DriverInv'
  OBVIOUS
<1>1. status = "running" /\ pc = "output file"
  BY DEF OpenOutput, At
<1>2. CASE Fail
  BY <1>1, <1>2, EndStep
<1>3. CASE ~Fail
  <2>1. /\ pc' = "generator" /\ status' = "running" /\ UNCHANGED output
        /\ inPath' = inPath /\ outPath' = outPath /\ inFile' = inFile /\ args' = args
        /\ program' = program
    BY <1>3 DEF OpenOutput, GoTo
  <2>2. /\ unflushed' = << >> /\ stdout' = << >> /\ ~lost'
        /\ outFile = None /\ inFile \in Inodes \cup {"directory"} /\ outPath \in Names
    BY <2>1, <1>1 DEF output, DriverInv, OutputInv, LocalsInv, Opening
  <2>3. CASE args.stdout
    <3>1. outFile' = "stdout" /\ entry' = entry /\ data' = data /\ given' = given
      BY <2>3, <1>3 DEF OpenOutput, fs
    <3>2. outFile' \notin Inodes /\ outFile \notin Inodes
      BY <3>1, <2>2, FilesAssumption
    <3>3. LocalsInv'
      BY <2>1, <2>2, <3>1, <3>2 DEF DriverInv, LocalsInv, Opening, Compiling
    <3>4. DriverTypeOK'
      BY <2>1, <2>2, <3>1 DEF DriverInv, DriverTypeOK
    <3>5. OutputInv'
      BY <2>1, <2>2, <3>1, <3>2 DEF DriverInv, OutputInv
    <3> QED
      BY <2>1, <3>3, <3>4, <3>5 DEF DriverInv, ProgramInv, SuccessIsTranslated
  <2>4. CASE ~args.stdout
    <3>1. /\ outFile' \in (IF entry[outPath] = None THEN Fresh ELSE {entry[outPath]} \cap Inodes)
          /\ entry' = [entry EXCEPT ![outPath] = outFile']
          /\ data' = [data EXCEPT ![outFile'] = << >>]
          /\ given' = IF entry[outPath] = None THEN [given EXCEPT ![outFile'] = << >>] ELSE given
      BY <2>4, <1>3 DEF OpenOutput
    <3>2. outFile' \in Inodes /\ outFile \notin Inodes
      BY <3>1, <2>2, FilesAssumption DEF Fresh
    <3>3. LocalsInv'
      BY <2>1, <2>2, <2>4, <3>2 DEF DriverInv, LocalsInv, Opening, Compiling
    <3>4. DriverTypeOK'
      BY <2>1, <2>2, <3>1, <3>2 DEF DriverInv, DriverTypeOK
    <3>5. OutputInv'
      <4>1. /\ data = [i \in Inodes |-> data[i]] /\ given = [i \in Inodes |-> given[i]]
            /\ \A i \in Inodes : data[i] = given[i]
        BY <3>2 DEF DriverInv, OutputInv
      <4>2. /\ data' = [i \in Inodes |-> data'[i]] /\ given' = [i \in Inodes |-> given'[i]]
            /\ data'[outFile'] = << >>
            /\ \A i \in Inodes \ {outFile'} : data'[i] = data[i] /\ given'[i] = given[i]
        BY <4>1, <3>1, <3>2
      <4> QED
        BY <4>1, <4>2, <2>1, <2>2 DEF OutputInv
    <3> QED
      BY <2>1, <3>3, <3>4, <3>5 DEF DriverInv, ProgramInv, SuccessIsTranslated
  <2> QED
    BY <2>3, <2>4 DEF DriverInv, LocalsInv
<1> QED
  BY <1>2, <1>3

LEMMA GenerateStep == DriverInv /\ Generate => DriverInv'
<1> SUFFICES ASSUME DriverInv, Generate PROVE DriverInv'
  OBVIOUS
<1>1. /\ status = "running" /\ pc = "generate" /\ pc' = "return" /\ status' = "running"
      /\ unflushed' = Translation(program)
      /\ stdout' = stdout /\ lost' = lost
      /\ entry' = entry /\ data' = data /\ given' = given /\ args' = args
      /\ inPath' = inPath /\ outPath' = outPath /\ inFile' = inFile /\ outFile' = outFile
      /\ program' = program
  BY DEF Generate, At, GoTo, fs, locals
<1>2. DriverTypeOK' /\ LocalsInv'
  BY <1>1 DEF DriverInv, DriverTypeOK, LocalsInv, Opening, Compiling
<1>3. OutputInv'
  BY <1>1 DEF DriverInv, OutputInv, Translation
<1>4. ProgramInv'
  BY <1>1 DEF DriverInv, ProgramInv, Source, Compiles
<1> QED
  BY <1>1, <1>2, <1>3, <1>4 DEF DriverInv, SuccessIsTranslated

LEMMA SameLine ==
    ASSUME NEW S, NEW v \in S, NEW n \in Nat
    PROVE  [i \in 1 .. n |-> v] \in Seq(S)
OBVIOUS

\* If nothing is lost, the whole of what was written is there.
LEMMA ReturnFromMainStep == DriverInv /\ ReturnFromMain => DriverInv'
<1> SUFFICES ASSUME DriverInv, ReturnFromMain PROVE DriverInv'
  OBVIOUS
<1>1. /\ status = "running" /\ pc = "return" /\ pc' = "return" /\ status' = "success"
      /\ entry' = entry /\ given' = given /\ args' = args
      /\ inPath' = inPath /\ outPath' = outPath /\ inFile' = inFile /\ outFile' = outFile
      /\ program' = program
  BY DEF ReturnFromMain, At, locals
<1>2. PICK n \in 0 .. Len(unflushed) :
          /\ lost' = (n # Len(unflushed))
          /\ IF outFile = "stdout"
             THEN stdout' = stdout \o SubSeq(unflushed, 1, n) /\ UNCHANGED data
             ELSE /\ data' = [data EXCEPT ![outFile] = @ \o SubSeq(unflushed, 1, n)]
                  /\ UNCHANGED stdout
  BY DEF ReturnFromMain
<1>3. /\ stdout = << >> /\ unflushed = Translation(program)
      /\ outFile \in Inodes \cup {"stdout"}
      /\ outFile \in Inodes => data[outFile] = << >>
      /\ data = [i \in Inodes |-> data[i]]
  BY <1>1 DEF DriverInv, OutputInv, LocalsInv, Opening
<1>4. DriverTypeOK' /\ LocalsInv'
  BY <1>1 DEF DriverInv, DriverTypeOK, LocalsInv, Opening, Compiling
<1>5. /\ data' = [i \in Inodes |-> data'[i]]
      /\ \A i \in Inodes \ {outFile} : data'[i] = data[i]
  BY <1>2, <1>3
<1>6. OutputInv'
  BY <1>1, <1>5 DEF DriverInv, OutputInv
<1>7. ProgramInv'
  BY <1>1 DEF DriverInv, ProgramInv, Source, Compiles
<1>8. SuccessIsTranslated'
  <2>1. SUFFICES ASSUME inFile # outFile, ~lost'
                 PROVE  Result' = Translation(program)
    <3>1. inFile # outFile => program = Source
      BY <1>1 DEF DriverInv, ProgramInv
    <3>2. Source' = Source
      BY <1>1 DEF Source
    <3> QED
      BY <3>1, <3>2, <1>1 DEF SuccessIsTranslated, Translation
  <2> DEFINE Lines == {"global _start", "code"}
  <2>2. unflushed \in Seq(Lines)
    <3>1. program \in {<< >>, <<"statement">>}
      BY <1>1 DEF DriverInv, ProgramInv, Compiles
    <3>2. DOMAIN program = 1 .. Len(program) /\ Len(program) \in Nat
      BY <3>1
    <3>3. [i \in DOMAIN program |-> "code"] \in Seq(Lines)
      BY <3>2, SameLine
    <3>4. <<"global _start">> \in Seq(Lines)
      OBVIOUS
    <3>5. unflushed = <<"global _start">> \o [i \in DOMAIN program |-> "code"]
      BY <1>3 DEF Translation
    <3> HIDE DEF Translation
    <3> QED
      BY <3>3, <3>4, <3>5, ConcatProperties
  <2>3. n = Len(unflushed)
    BY <2>1, <1>2
  <2>4. SubSeq(unflushed, 1, n) = unflushed /\ << >> \o unflushed = unflushed
    BY <2>2, <2>3, SubSeqFull, ConcatEmptySeq
  <2>5. CASE outFile = "stdout"
    BY <2>4, <2>5, <1>1, <1>2, <1>3 DEF Result
  <2>6. CASE outFile # "stdout"
    <3>1. outFile \in Inodes
      BY <2>6, <1>3
    <3>2. data'[outFile] = << >> \o SubSeq(unflushed, 1, n)
      BY <3>1, <2>6, <1>2, <1>3
    <3> QED
      BY <3>2, <2>4, <2>6, <1>1, <1>3 DEF Result
  <2> QED
    BY <2>5, <2>6
<1> QED
  BY <1>4, <1>6, <1>7, <1>8 DEF DriverInv

\* Another process gets at no file that main() has open.
LEMMA MeddleStep == DriverInv /\ Meddle => DriverInv'
<1> SUFFICES ASSUME DriverInv, Meddle PROVE DriverInv'
  OBVIOUS
<1>1. /\ status = "running" /\ pc' = pc /\ status' = status
      /\ args' = args /\ inPath' = inPath /\ outPath' = outPath /\ inFile' = inFile
      /\ outFile' = outFile /\ program' = program
      /\ unflushed' = unflushed /\ stdout' = stdout /\ lost' = lost
  BY DEF Meddle, locals, output
<1>2. /\ entry' \in [Names -> Inodes \cup {"directory", None}]
      /\ data' = [i \in Inodes |-> data'[i]] /\ given' = [i \in Inodes |-> given'[i]]
      /\ inFile \in Inodes => data'[inFile] = data[inFile] /\ given'[inFile] = given[inFile]
      /\ outFile \in Inodes => data'[outFile] = data[outFile]
      /\ \A i \in Inodes \ {outFile} : data'[i] = given'[i]
  <2>1. /\ entry \in [Names -> Inodes \cup {"directory", None}]
        /\ data = [i \in Inodes |-> data[i]] /\ given = [i \in Inodes |-> given[i]]
        /\ \A i \in Inodes \ {outFile} : data[i] = given[i]
    BY DEF DriverInv, DriverTypeOK, OutputInv
  <2>2. PICK name \in Names :
            \/ entry' = [entry EXCEPT ![name] = None] /\ UNCHANGED <<data, given>>
            \/ \E i \in Fresh, text \in Sources :
                  /\ entry' = [entry EXCEPT ![name] = i]
                  /\ data' = [data EXCEPT ![i] = text]
                  /\ given' = [given EXCEPT ![i] = text]
    BY DEF Meddle
  <2>3. CASE entry' = [entry EXCEPT ![name] = None] /\ UNCHANGED <<data, given>>
    BY <2>1, <2>3
  <2>4. CASE \E i \in Fresh, text \in Sources :
                /\ entry' = [entry EXCEPT ![name] = i]
                /\ data' = [data EXCEPT ![i] = text]
                /\ given' = [given EXCEPT ![i] = text]
    <3>1. PICK i \in Fresh, text \in Sources :
                /\ entry' = [entry EXCEPT ![name] = i]
                /\ data' = [data EXCEPT ![i] = text]
                /\ given' = [given EXCEPT ![i] = text]
      BY <2>4
    <3>2. i \in Inodes /\ i # inFile /\ i # outFile
      BY DEF Fresh
    <3>3. entry' \in [Names -> Inodes \cup {"directory", None}]
      BY <2>1, <3>1, <3>2
    <3>4. /\ data' = [j \in Inodes |-> IF j = i THEN text ELSE data[j]]
          /\ given' = [j \in Inodes |-> IF j = i THEN text ELSE given[j]]
      BY <2>1, <3>1
    <3>5. /\ inFile \in Inodes => data'[inFile] = data[inFile] /\ given'[inFile] = given[inFile]
          /\ outFile \in Inodes => data'[outFile] = data[outFile]
      BY <3>2, <3>4
    <3>6. data' = [j \in Inodes |-> data'[j]] /\ given' = [j \in Inodes |-> given'[j]]
      BY <3>4
    <3>7. \A j \in Inodes \ {outFile} : data'[j] = given'[j]
      BY <2>1, <3>4
    <3> QED
      BY <3>3, <3>5, <3>6, <3>7
  <2> QED
    BY <2>2, <2>3, <2>4
<1>3. DriverTypeOK' /\ LocalsInv'
  BY <1>1, <1>2 DEF DriverInv, DriverTypeOK, LocalsInv
<1>4. OutputInv'
  BY <1>1, <1>2 DEF DriverInv, OutputInv, Translation
<1>5. ProgramInv'
  BY <1>1, <1>2 DEF DriverInv, ProgramInv, Source, Compiles
<1> QED
  BY <1>1, <1>3, <1>4, <1>5 DEF DriverInv, SuccessIsTranslated

-----------------------------------------------------------------------------

LEMMA InitDriverInv == DriverInit => DriverInv
<1> SUFFICES ASSUME DriverInit PROVE DriverInv
  OBVIOUS
<1>1. DriverTypeOK
  BY DEF DriverInit, DriverTypeOK
<1>2. LocalsInv
  BY ArgumentsAssumption, FilesAssumption DEF DriverInit, LocalsInv, Opening, Compiling
<1>3. OutputInv
  BY FilesAssumption DEF DriverInit, OutputInv
<1> QED
  BY <1>1, <1>2, <1>3 DEF DriverInv, DriverInit, ProgramInv, SuccessIsTranslated

LEMMA IdleDriverStep == DriverInv /\ UNCHANGED dvars => DriverInv'
<1> SUFFICES ASSUME DriverInv, UNCHANGED dvars PROVE DriverInv'
  OBVIOUS
<1>1. /\ entry' = entry /\ data' = data /\ given' = given /\ args' = args
      /\ inPath' = inPath /\ outPath' = outPath /\ inFile' = inFile /\ outFile' = outFile
      /\ program' = program /\ pc' = pc /\ status' = status
      /\ unflushed' = unflushed /\ stdout' = stdout /\ lost' = lost
  BY DEF dvars, fs, locals, output
<1>2. DriverTypeOK' /\ LocalsInv'
  BY <1>1 DEF DriverInv, DriverTypeOK, LocalsInv
<1>3. OutputInv'
  BY <1>1 DEF DriverInv, OutputInv, Translation
<1>4. ProgramInv' /\ SuccessIsTranslated'
  BY <1>1 DEF DriverInv, ProgramInv, SuccessIsTranslated, Source, Result, Compiles, Translation
<1> QED
  BY <1>2, <1>3, <1>4 DEF DriverInv

LEMMA NextDriverInv == DriverInv /\ [DriverNext]_dvars => DriverInv'
BY ParseArgumentsStep, SanitizeInputStep, CheckInputStep, OpenInputStep, SanitizeOutputStep,
   OpenOutputStep, ConstructGeneratorStep, GenerateStep, ReturnFromMainStep, MeddleStep,
   IdleDriverStep
   DEF DriverNext, Main, Ended

\* At every label of main() the locals it goes on to use are set, and the output is
\* what was written so far (pimento.cpp:81-119).
THEOREM DriverInvariant == DriverSpec => []DriverInv
BY InitDriverInv, NextDriverInv, PTL DEF DriverSpec

\* The streams main() uses are open when it uses them (pimento.cpp:90, 100).
THEOREM DriverTypeTheorem == DriverSpec => []DriverTypeOK
<1>1. DriverInv => DriverTypeOK
  BY DEF DriverInv
<1> QED
  BY <1>1, DriverInvariant, PTL

\* Success means that the output is the translation of what a user wrote, the whole
\* and nothing else, whatever other processes did to the files meanwhile; but for
\* an input that is the output, and a failed write (pimento.cpp:81-119).
THEOREM SuccessTheorem == DriverSpec => []SuccessIsTranslated
<1>1. DriverInv => SuccessIsTranslated
  BY DEF DriverInv
<1> QED
  BY <1>1, DriverInvariant, PTL

\* A run that fails or aborts leaves no part of a program behind
\* (pimento.cpp:96-114, generator.cpp:9-22).
THEOREM FailureTheorem == DriverSpec => []FailureLeavesNothing
<1>1. DriverInv => FailureLeavesNothing
  BY DEF DriverInv, OutputInv, FailureLeavesNothing
<1> QED
  BY <1>1, DriverInvariant, PTL

\* Only the output file is changed, and none with --stdout (pimento.cpp:96-99).
THEOREM OutputTheorem == DriverSpec => []OnlyOutputChanges
<1>1. DriverInv => OnlyOutputChanges
  BY DEF DriverInv, OutputInv, LocalsInv, OnlyOutputChanges
<1> QED
  BY <1>1, DriverInvariant, PTL
=============================================================================
