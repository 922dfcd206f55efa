-------------------------------- MODULE Driver --------------------------------
(***************************************************************************)
(* main() (src/src/pimento.cpp) with utils.cpp and file_stream.hpp: from   *)
(* the arguments to the exit status, one action per call, between which    *)
(* other processes may change the files.                                   *)
(*                                                                         *)
(* A path argument is a sequence of pieces: "~", "/", a reference to an    *)
(* environment variable, or any other text.  What a text says is not       *)
(* looked at, only whether it compiles.  --help, --version and the flags   *)
(* of the log level are left out.                                          *)
(***************************************************************************)
EXTENDS Naturals, Sequences, SequencesExt

CONSTANTS
    Arguments,      \* what a user may type: [file, output: a path or None, stdout: BOOLEAN]
    Environments,   \* functions from HOME and the References to pieces, or None if not set
    References,     \* the pieces that refer to a variable, "$V" or "${V}"
    Links,          \* what expanded paths lead to once links, "." and ".." are resolved
    Inodes,         \* the files there can be
    Sources,        \* what users write to files
    MaxMeddling,    \* bound: what other processes do in a run
    None

ASSUME FilesAssumption == {"stdout", "directory", None} \cap Inodes = {}
ASSUME ArgumentsAssumption ==
    \A a \in Arguments : /\ a = [file |-> a.file, output |-> a.output, stdout |-> a.stdout]
                         /\ a.stdout \in BOOLEAN

VARIABLES
    entry,          \* what each name of the file system is: an inode, "directory" or None
    data,           \* the content of each inode
    given,          \* what users wrote to it: history
    meddled,        \* how often other processes did something
    env, args,
    pc, status,     \* where main() is; "running", "success" or "failure", or "aborted"
    inPath, outPath,        \* inputResolvedPath, outputResolvedPath
    inFile, outFile,        \* inputFile, outputFile: an inode, "stdout", or None
    program,        \* the text that Generator has parsed
    unflushed,      \* what is in the buffer of the output stream
    stdout,
    lost            \* a write to the output failed

fs == <<entry, data, given, meddled>>
locals == <<env, args, inPath, outPath, inFile, outFile, program>>
output == <<unflushed, stdout, lost>>
dvars == <<fs, locals, pc, status, output>>

Names == {Links[path] : path \in DOMAIN Links}
Default == <<"out.asm">>

-----------------------------------------------------------------------------

\* expandVars (utils.cpp:19-71): "~" first, so that references in HOME are
\* expanded too; what a reference expands to is not looked at again.
Expandable(path) ==
    path # << >> /\ Head(path) = "~" =>
        env["HOME"] # None /\ (Len(path) > 1 => path[2] = "/")

TildeExpanded(path) ==
    IF path # << >> /\ Head(path) = "~" THEN env["HOME"] \o Tail(path) ELSE path

AllSet(path) == \A i \in DOMAIN path : path[i] \in References => env[path[i]] # None

Substituted(path) ==
    FlattenSeq([i \in DOMAIN path |-> IF path[i] \in References THEN env[path[i]] ELSE <<path[i]>>])

\* std::filesystem::canonical() throws if there is nothing at the path.
Canonical(path) ==
    IF path \in DOMAIN Links /\ entry[Links[path]] # None THEN Links[path] ELSE None

\* What the compiler makes of a text.  A text that does not compile ends the
\* process in the constructor of Generator.
Compiles(text) == text \in {<< >>, <<"statement">>}
Translation(text) == <<"global _start">> \o [i \in DOMAIN text |-> "code"]

-----------------------------------------------------------------------------

GoTo(label) == pc' = label /\ status' = "running"

\* exit(EXIT_FAILURE), or return from main() before there is an output: std::cout
\* is flushed, but no destructor of a local runs: what is in an std::ofstream is gone.
Fail ==
    /\ pc' = pc /\ status' = "failure"
    /\ stdout' = IF outFile = "stdout" THEN stdout \o unflushed ELSE stdout
    /\ unflushed' = << >>
    /\ UNCHANGED <<fs, locals, lost>>

\* std::terminate().
Abort == pc' = pc /\ status' = "aborted" /\ UNCHANGED <<fs, locals, output>>

At(label) == status = "running" /\ pc = label

\* pimento.cpp:29-74: the file is required, and -o excludes --stdout.
ParseArguments ==
    /\ At("arguments")
    /\ IF args.file = None \/ (args.output # None /\ args.stdout)
       THEN Fail
       ELSE /\ GoTo("input path")
            /\ args' = [args EXCEPT !.output = IF @ = None THEN Default ELSE @]
            /\ UNCHANGED <<fs, env, inPath, outPath, inFile, outFile, program, output>>

\* sanitizePath (utils.cpp:73-76) is noexcept, and what canonical() throws ends
\* the process in std::terminate().
Expands(path) == Expandable(path) /\ AllSet(TildeExpanded(path))
Resolved(path) == Canonical(Substituted(TildeExpanded(path)))

SanitizeFails(path) ==
    \/ ~Expands(path) /\ Fail
    \/ Expands(path) /\ Resolved(path) = None /\ Abort

SanitizeInput ==
    /\ At("input path")
    /\ \/ SanitizeFails(args.file)
       \/ /\ Expands(args.file) /\ Resolved(args.file) # None
          /\ GoTo("input check")
          /\ inPath' = Resolved(args.file)
          /\ UNCHANGED <<fs, env, args, outPath, inFile, outFile, program, output>>

\* fileExists (utils.cpp:78-102).
CheckInput ==
    /\ At("input check")
    /\ IF entry[inPath] \in Inodes
       THEN GoTo("input file") /\ UNCHANGED <<fs, locals, output>>
       ELSE Fail

\* Mutant of OpenInput: whether the stream is open is not asked (pimento.cpp:90).
OpenInputUnchecked ==
    /\ At("input file")
    /\ GoTo("output path")
    /\ inFile' = entry[inPath]
    /\ UNCHANGED <<fs, env, args, inPath, outPath, outFile, program, output>>

\* makeFromPath() of file_stream.hpp:109-118; opening may fail, whatever is
\* there.  A directory can be opened for reading, and is empty.
OpenInput ==
    /\ At("input file")
    /\ \/ Fail
       \/ /\ entry[inPath] # None
          /\ GoTo("output path")
          /\ inFile' = entry[inPath]
          /\ UNCHANGED <<fs, env, args, inPath, outPath, outFile, program, output>>

\* The path is sanitized whether or not it is used (pimento.cpp:96).
SanitizeOutput ==
    /\ At("output path")
    /\ \/ SanitizeFails(args.output)
       \/ /\ Expands(args.output) /\ Resolved(args.output) # None
          /\ GoTo("output file")
          /\ outPath' = Resolved(args.output)
          /\ UNCHANGED <<fs, env, args, inPath, inFile, outFile, program, output>>

\* The files that nothing refers to.
Fresh == {i \in Inodes : i \notin {inFile, outFile} /\ \A name \in Names : entry[name] # i}

\* Mutants of OpenOutput: the file is opened for appending; the file is opened
\* even if the output goes to stdout.
OpenOutputAppends ==
    /\ At("output file") /\ GoTo("generator")
    /\ outFile' \in (IF args.stdout THEN {"stdout"} ELSE {entry[outPath]} \cap Inodes)
    /\ UNCHANGED <<fs, env, args, inPath, outPath, inFile, program, output>>

OpenOutputAlways ==
    /\ At("output file") /\ GoTo("generator")
    /\ entry[outPath] \in Inodes
    /\ outFile' = (IF args.stdout THEN "stdout" ELSE entry[outPath])
    /\ data' = [data EXCEPT ![entry[outPath]] = << >>]
    /\ UNCHANGED <<entry, given, meddled, env, args, inPath, outPath, inFile, program, output>>

\* Opening an std::ofstream truncates the file, or creates one.
OpenOutput ==
    /\ At("output file")
    /\ \/ ~args.stdout /\ Fail
       \/ /\ IF args.stdout
             THEN outFile' = "stdout" /\ UNCHANGED fs
             ELSE /\ outFile' \in (IF entry[outPath] = None THEN Fresh ELSE {entry[outPath]} \cap Inodes)
                  /\ entry' = [entry EXCEPT ![outPath] = outFile']
                  /\ data' = [data EXCEPT ![outFile'] = << >>]
                  /\ given' = IF entry[outPath] = None THEN [given EXCEPT ![outFile'] = << >>] ELSE given
                  /\ UNCHANGED meddled
          /\ GoTo("generator")
          /\ UNCHANGED <<env, args, inPath, outPath, inFile, program, output>>

Read(inode) == IF inode \in Inodes THEN data[inode] ELSE << >>

Parse(text, Otherwise) ==
    /\ At("generator")
    /\ \/ ~Compiles(text) /\ Otherwise
       \/ /\ Compiles(text)
          /\ GoTo("generate")
          /\ program' = text
          /\ UNCHANGED <<fs, env, args, inPath, outPath, inFile, outFile, output>>

\* Mutants of ConstructGenerator: the head of the output is written before the
\* text is parsed; the input file is opened again, by its path.
ConstructGeneratorLate ==
    Parse(Read(inFile),
          /\ pc' = pc /\ status' = "failure"
          /\ stdout' = IF outFile = "stdout" THEN <<"global _start">> ELSE << >>
          /\ UNCHANGED <<fs, locals, unflushed, lost>>)
ConstructGeneratorByPath == Parse(Read(entry[inPath]), Fail)

\* Generator::Generator() (generator.cpp:9-12) lexes and parses the file as it is
\* now; what does not compile ends the process.
ConstructGenerator == Parse(Read(inFile), Fail)

\* generate() (generator.cpp:14-22).
Generate ==
    /\ At("generate")
    /\ GoTo("return")
    /\ unflushed' = Translation(program)
    /\ UNCHANGED <<fs, locals, stdout, lost>>

\* The end of main(): SmartDeleter (file_stream.hpp:22-46) closes a file and leaves
\* std::cout to exit(); both flush, and nobody looks whether all could be written.
ReturnFromMain ==
    /\ At("return")
    /\ pc' = pc /\ status' = "success" /\ unflushed' = << >>
    /\ \E n \in 0 .. Len(unflushed) :
          LET flushed == SubSeq(unflushed, 1, n)
          IN  /\ lost' = (n # Len(unflushed))
              /\ IF outFile = "stdout"
                 THEN stdout' = stdout \o flushed /\ UNCHANGED data
                 ELSE data' = [data EXCEPT ![outFile] = @ \o flushed] /\ UNCHANGED stdout
    /\ UNCHANGED <<entry, given, meddled, locals>>

-----------------------------------------------------------------------------

\* Another process removes a file, or puts a new one in its place.
Meddle ==
    /\ status = "running" /\ meddled < MaxMeddling
    /\ meddled' = meddled + 1
    /\ \E name \in Names :
          \/ entry' = [entry EXCEPT ![name] = None] /\ UNCHANGED <<data, given>>
          \/ \E i \in Fresh, text \in Sources :
                /\ entry' = [entry EXCEPT ![name] = i]
                /\ data' = [data EXCEPT ![i] = text]
                /\ given' = [given EXCEPT ![i] = text]
    /\ UNCHANGED <<locals, pc, status, output>>

DriverInit ==
    /\ env \in Environments /\ args \in Arguments
    /\ entry \in [Names -> Inodes \cup {"directory", None}]
    /\ data \in [Inodes -> Sources]
    /\ given = data /\ meddled = 0
    /\ pc = "arguments" /\ status = "running"
    /\ inPath = None /\ outPath = None /\ inFile = None /\ outFile = None
    /\ program = << >> /\ unflushed = << >> /\ stdout = << >> /\ lost = FALSE

Main ==
    \/ ParseArguments \/ SanitizeInput \/ CheckInput \/ OpenInput \/ SanitizeOutput
    \/ OpenOutput \/ ConstructGenerator \/ Generate \/ ReturnFromMain

Ended == status # "running" /\ UNCHANGED dvars

DriverNext == Main \/ Meddle \/ Ended

DriverSpec == DriverInit /\ [][DriverNext]_dvars

-----------------------------------------------------------------------------

Source == IF inFile \in Inodes THEN given[inFile] ELSE << >>
Result == IF outFile = "stdout" THEN stdout ELSE data[outFile]

DriverTypeOK ==
    /\ entry \in [Names -> Inodes \cup {"directory", None}]
    /\ status \in {"running", "success", "failure", "aborted"}
    /\ inPath \in Names \cup {None} /\ outPath \in Names \cup {None}
    \* The streams that main() goes on to use are there (pimento.cpp:90, 100).
    /\ pc \in {"generator", "generate", "return"} =>
            inFile \in Inodes \cup {"directory"} /\ outFile \in Inodes \cup {"stdout"}

\* EXIT_SUCCESS means that the output is the translation of the text a user
\* wrote to the input file (pimento.cpp:81-119): it is the whole, and nothing of
\* an older output is left.  Two cases apart: the input is the output, or a write failed.
SuccessIsTranslated ==
    status = "success" /\ inFile # outFile /\ ~lost =>
        Result = Translation(Source)

\* A run that fails leaves no part of a program behind, neither on stdout nor in
\* a file (pimento.cpp:96-114, generator.cpp:9-22): what a file has is what a user
\* wrote, or nothing.
FailureLeavesNothing ==
    status \in {"failure", "aborted"} =>
        stdout = << >> /\ \A i \in Inodes : data[i] \in {given[i], << >>}

\* No file but the output file is ever changed, and with --stdout none is
\* (pimento.cpp:96-99): the source is lost only if it is itself the output file.
OnlyOutputChanges ==
    \A i \in Inodes : data[i] # given[i] => i = outFile /\ ~args.stdout

-----------------------------------------------------------------------------

\* "Path for assembly output file." (pimento.cpp:40): the output file is what the
\* program makes.  It is aborted unless the file exists before.
OutputIsMade == status = "aborted" => outPath # None \/ inPath = None \/ args.stdout
=============================================================================
