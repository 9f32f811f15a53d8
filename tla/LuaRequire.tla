----------------------------- MODULE LuaRequire -----------------------------
(***************************************************************************)
(* What Lua's own require does with a program of several files (Lua 5.2    *)
(* and later, over package.path and package.loaded): the behaviour a       *)
(* bundle of the program has to show.  A file is a list of requires, each  *)
(* of which it may or may not come to, and what it returns; it may publish *)
(* its table under its name before it requires anything.                   *)
(***************************************************************************)
EXTENDS Naturals, Sequences

CONSTANTS Entry,     \* the file the interpreter is started with
          NoFile,    \* the file of a name that only the host can load
          FileOf,    \* the file each module name leads to, or NoFile
          Preloaded, \* names the host may have loaded already
          MaxDepth   \* the depth at which the interpreter's stack overflows

VARIABLES prog,   \* every file: its requires, early publication, return value
          loaded, \* package.loaded
          stack,  \* the files being run, each under its name, and how far
          last    \* the last thing the program did: a history variable

Truthy(v) == v \notin {"nil", "false"}
Frame(f, n) == [file |-> f, name |-> n, at |-> 1]
Top == stack[Len(stack)]
Advanced == [stack EXCEPT ![Len(stack)].at = @ + 1]

Required == prog[Top.file].body[Top.at]

Running == stack # <<>> /\ Top.at <= Len(prog[Top.file].body)

\* The require is on a path the program does not take.
Skip == /\ Running
        /\ stack' = Advanced
        /\ UNCHANGED <<prog, loaded, last>>

\* A truthy entry short-circuits.
Hit == /\ Running
       /\ Truthy(loaded[Required])
       /\ stack' = Advanced
       /\ last' = <<"got", Required, loaded[Required]>>
       /\ UNCHANGED <<prog, loaded>>

\* The host's own module, such as a C library.
Host == /\ Running
        /\ FileOf[Required] = NoFile /\ ~Truthy(loaded[Required])
        /\ loaded' = [loaded EXCEPT ![Required] = "host"]
        /\ stack' = Advanced
        /\ last' = <<"got", Required, "host">>
        /\ UNCHANGED prog

\* The file is run under its name, and may publish its table at once.
Load == /\ Running
        /\ FileOf[Required] # NoFile /\ ~Truthy(loaded[Required])
        /\ Len(stack) < MaxDepth
        /\ stack' = Append(stack, Frame(FileOf[Required], Required))
        /\ loaded' = IF prog[FileOf[Required]].early
                     THEN [loaded EXCEPT ![Required] = "table"] ELSE loaded
        /\ last' = <<"runs", Required, "nil">>
        /\ UNCHANGED prog

\* A return value that is not nil is stored; without one, true is, unless the
\* file stored something itself.
Stored(v, was) == IF v # "nil" THEN v ELSE IF was # "nil" THEN was ELSE "true"

Return ==
    /\ Len(stack) > 1 /\ ~Running
    /\ LET kept == [loaded EXCEPT ![Top.name] = Stored(prog[Top.file].ret, @)] IN
       /\ loaded' = kept
       /\ last' = <<"got", Top.name, kept[Top.name]>>
    /\ stack' = [SubSeq(stack, 1, Len(stack) - 1) EXCEPT ![Len(stack) - 1].at = @ + 1]
    /\ UNCHANGED prog

Init == /\ stack = <<Frame(Entry, "")>>
        /\ \E taken \in SUBSET Preloaded :
              loaded = [n \in DOMAIN FileOf |-> IF n \in taken THEN "host" ELSE "nil"]
        /\ last = <<>>

Next == Skip \/ Hit \/ Host \/ Load \/ Return

Spec == Init /\ [][Next]_<<prog, loaded, stack, last>>
=============================================================================
