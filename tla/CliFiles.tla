-------------------------------- MODULE CliFiles --------------------------------
(***************************************************************************)
(* What a run of the command line does to files (zstdx-cli, main.rs): each    *)
(* input in turn has its output named, checked, created, written and, on a    *)
(* failure, removed again; --rm removes the source last.  The process may be  *)
(* killed between two system calls, and a source may grow while it is read.   *)
(*                                                                         *)
(* A path is <<directory, stem, suffixes>>.  A file's content is a sequence   *)
(* of items: <<"data", k>>, a payload in the clear; <<"frame", items>>; a     *)
(* <<"skip">> frame; another format's <<"gzip">>; <<"cut">>, what is not      *)
(* complete.                                                               *)
(***************************************************************************)
EXTENDS Integers, Sequences, SequencesExt

CONSTANT Commands   \* the runs explored: options, inputs, the files there are

VARIABLES
    cmd,
    names, data,    \* path -> inode or 0; inode -> content
    turn, doing,    \* the input, and where process() is with it
    target,         \* its output: "none", "stdout", "sink" or <<"file", path>>
    src, dst,       \* the inodes open
    pledge,         \* the source's size when it was opened
    at              \* decompress: the next item

cliVars == <<cmd, names, data, turn, doing, target, src, dst, pledge, at>>

(* Inodes 0 and 1 are standard output and the test mode's sink.             *)
Inodes == DOMAIN data
Input == cmd.inputs[turn]
Stdin == <<"stdin">>
IsFile(input) == input # Stdin
OutPath == target[2]
ToFile == target[1] = "file"

Init ==
    /\ cmd \in Commands
    /\ names = cmd.names
    /\ data = [i \in 0 .. cmd.inodes + Len(cmd.inputs) |->
                 IF i \in DOMAIN cmd.data THEN cmd.data[i] ELSE <<>>]
    /\ turn = 1 /\ doing = "start" /\ target = <<"none">>
    /\ src = 0 /\ dst = 0 /\ pledge = <<>> /\ at = 1

(* default_output_name and --output-dir-flat.                               *)
default_output_name(path) ==
    LET dir == IF cmd.flat = "" THEN path[1] ELSE cmd.flat
    IN  IF cmd.mode = "compress" THEN <<"file", <<dir, path[2], Append(path[3], "zst")>>>>
        ELSE IF path[3] # <<>> /\ Last(path[3]) = "zst" THEN <<"file", <<dir, path[2], Front(path[3])>>>>
        ELSE <<"none">>

Output ==
    CASE cmd.mode = "test" -> <<"sink">>
      [] cmd.mode # "test" /\ cmd.output # <<>> -> <<"file", cmd.output>>
      [] cmd.mode # "test" /\ cmd.output = <<>> /\ (cmd.stdout \/ ~IsFile(Input)) -> <<"stdout">>
      [] OTHER -> default_output_name(Input)

(* One input is over: run goes on to the next whatever its end.             *)
Ends ==
    /\ IF turn < Len(cmd.inputs)
       THEN turn' = turn + 1 /\ doing' = "start"
       ELSE doing' = "exit" /\ UNCHANGED turn
    /\ target' = <<"none">> /\ src' = 0 /\ dst' = 0 /\ pledge' = <<>> /\ at' = 1
    /\ UNCHANGED cmd

Goes(step) == doing' = step /\ UNCHANGED <<cmd, turn>>

-----------------------------------------------------------------------------
(* process().                                                              *)
Excluded == cmd.exclude /\ cmd.mode = "compress" /\ IsFile(Input)
            /\ Input[3] # <<>> /\ Last(Input[3]) = "zst"

Start ==
    /\ doing = "start"
    /\ IF Excluded \/ Output = <<"none">> \/ Output = <<"file", Input>> THEN Ends
       ELSE Goes("check") /\ target' = Output /\ UNCHANGED <<src, dst, pledge, at>>
    /\ UNCHANGED <<names, data>>

(* The prompt is answered from the terminal; with none it is declined.       *)
Declined == names[OutPath] # 0 /\ ~cmd.force /\ cmd.answer # "y"

check_overwrite ==
    /\ doing = "check"
    /\ IF ToFile /\ Declined THEN Ends
       ELSE Goes("open") /\ UNCHANGED <<target, src, dst, pledge, at>>
    /\ UNCHANGED <<names, data>>

open_input ==
    /\ doing = "open"
    /\ IF ~IsFile(Input)
       THEN Goes("create") /\ src' = cmd.stdin /\ pledge' = <<>>
            /\ UNCHANGED <<target, dst, at>>
       ELSE IF names[Input] = 0 THEN Ends
       ELSE Goes("create") /\ src' = names[Input] /\ pledge' = data[names[Input]]
            /\ UNCHANGED <<target, dst, at>>
    /\ UNCHANGED <<names, data>>

(* File::create: a file of that name is truncated, or there is a new one; it  *)
(* may not be allowed.                                                     *)
open_output ==
    /\ doing = "create"
    /\ \/ /\ ToFile /\ Ends /\ UNCHANGED <<names, data>>
       \/ /\ Goes(IF cmd.mode = "compress" THEN "compress" ELSE "decompress")
          /\ dst' = CASE target = <<"stdout">> -> 0
                      [] target = <<"sink">> -> 1
                      [] ToFile /\ names[OutPath] # 0 -> names[OutPath]
                      [] OTHER -> cmd.inodes + turn
          /\ IF ToFile
             THEN /\ names' = [names EXCEPT ![OutPath] = dst']
                  /\ data' = [data EXCEPT ![dst'] = <<>>]
             ELSE UNCHANGED <<names, data>>
          /\ UNCHANGED <<target, src, pledge, at>>

Puts(items) == data' = [data EXCEPT ![dst] = @ \o items]

(* A failure inside the write phase.                                        *)
remove_partial_output ==
    IF ToFile THEN names' = [names EXCEPT ![OutPath] = 0] ELSE UNCHANGED names

Frames(items) ==
    IF ~cmd.adapt \/ items = <<>> THEN <<<<"frame", items>>>>
    ELSE [i \in DOMAIN items |-> <<"frame", <<items[i]>>>>]

(* The first bytes are out: a frame that is not complete.                   *)
compress_begins ==
    /\ doing = "compress"
    /\ Puts(<<<<"cut">>>>)
    /\ Goes("finish")
    /\ UNCHANGED <<names, target, src, dst, pledge, at>>

(* A pledge the source did not keep: of a file's own size, of --stream-size,  *)
(* suppressed (compress_counted) or not.  --adapt pledges what it has read.   *)
Broken ==
    IF IsFile(Input) THEN cmd.content_size /\ ~cmd.adapt /\ Len(data[src]) # Len(pledge)
    ELSE cmd.stream_size >= 0 /\ Len(data[src]) # cmd.stream_size

finish ==
    /\ doing = "finish"
    /\ \/ /\ ~Broken
          /\ data' = [data EXCEPT ![dst] = Front(@) \o Frames(data[src])]
          /\ doing' = "written"
       \/ UNCHANGED data /\ doing' = "failed"
    /\ UNCHANGED <<cmd, names, turn, target, src, dst, pledge, at>>

PassThrough ==
    \/ cmd.pass_through = "yes"
    \/ cmd.pass_through = "unsaid" /\ cmd.force /\ target = <<"stdout">>

(* The frame loop, an item at a time: what is written, and where it leaves    *)
(* the loop.                                                               *)
Item == data[src][at]
Rest == SubSeq(data[src], at, Len(data[src]))

Treats(items, step) ==
    /\ Puts(items)
    /\ doing' = step
    /\ at' = IF step = "decompress" THEN at + 1 ELSE at
    /\ UNCHANGED <<cmd, names, turn, target, src, dst, pledge>>

decompress ==
    /\ doing = "decompress"
    /\ IF at > Len(data[src]) THEN Treats(<<>>, IF at = 1 THEN "failed" ELSE "written")
       ELSE CASE Item[1] = "skip"  -> Treats(<<>>, "decompress")
              [] Item[1] = "frame" -> Treats(Item[2], "decompress")
              [] Item[1] = "cut"   -> Treats(<<Item>>, "failed")
              [] Item[1] = "gzip"  -> Treats(<<>>, "failed")
              [] Item[1] = "data"  -> IF PassThrough THEN Treats(Rest, "written")
                                      ELSE Treats(<<>>, "failed")

(* A read or a write of the loop fails with a part of the item written.      *)
decompress_fails == doing = "decompress" /\ Treats(<<<<"cut">>>>, "failed")

failed ==
    /\ doing = "failed"
    /\ remove_partial_output
    /\ Ends
    /\ UNCHANGED data

(* Mutant of Removes: it does not matter where the output went.             *)
RemovesAny == cmd.rm /\ IsFile(Input)
Removes == cmd.rm /\ ToFile /\ IsFile(Input)

written ==
    /\ doing = "written"
    /\ IF Removes
       THEN names' = [names EXCEPT ![Input] = 0] \/ UNCHANGED names
       ELSE UNCHANGED names
    /\ Ends
    /\ UNCHANGED data

-----------------------------------------------------------------------------
(* The surroundings.                                                       *)
Kill ==
    /\ doing \notin {"exit", "killed"}
    /\ doing' = "killed"
    /\ UNCHANGED <<cmd, names, data, turn, target, src, dst, pledge, at>>

(* Some other program appends to the source once it is open.                *)
Grow ==
    /\ doing \in {"create", "compress", "finish"} /\ cmd.grows
    /\ IsFile(Input) /\ src = names[Input] /\ src # dst /\ Len(data[src]) = Len(pledge)
    /\ data' = [data EXCEPT ![src] = Append(@, <<"data", 99>>)]
    /\ UNCHANGED <<cmd, names, turn, doing, target, src, dst, pledge, at>>

Next ==
    \/ Start \/ check_overwrite \/ open_input \/ open_output
    \/ compress_begins \/ finish \/ decompress \/ decompress_fails \/ failed \/ written
    \/ Kill \/ Grow

Spec == Init /\ [][Next]_cliVars

-----------------------------------------------------------------------------
(* Properties.                                                             *)

(* The payloads of a content: those in the clear, and those in its frames.   *)
Payloads(items) ==
    UNION {CASE items[i][1] = "data" -> {items[i]}
             [] items[i][1] = "frame" -> {items[i][2][j] : j \in DOMAIN items[i][2]}
             [] OTHER -> {} : i \in DOMAIN items}
OnDisk == UNION {Payloads(data[names[p]]) : p \in {q \in DOMAIN names : names[q] # 0}}

Consent == cmd.force \/ cmd.answer = "y"
Sources == {cmd.inputs[i] : i \in DOMAIN cmd.inputs} \ {Stdin}

(* Every payload of a file named on the command line is on disk at every      *)
(* moment, in its source or whole in an output, even if the process is killed *)
(* there; a file the run was not allowed to overwrite is as it was; and when   *)
(* the run ends by itself, no incomplete output of its own is left behind.    *)
NothingLost ==
    /\ \A p \in Sources : cmd.names[p] # 0 => Payloads(cmd.data[cmd.names[p]]) \subseteq OnDisk
    /\ \A p \in DOMAIN names \ Sources :
          cmd.names[p] # 0 /\ ~Consent =>
             names[p] = cmd.names[p] /\ data[names[p]] = cmd.data[cmd.names[p]]
    /\ doing = "exit" =>
          /\ \A p \in DOMAIN names : names[p] # 0 =>
                <<"cut">> \notin {data[names[p]][i] : i \in DOMAIN data[names[p]]}
                \/ (p \in DOMAIN cmd.names /\ names[p] = cmd.names[p]
                    /\ data[names[p]] = cmd.data[names[p]])

=============================================================================
