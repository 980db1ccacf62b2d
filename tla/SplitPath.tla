------------------------------ MODULE SplitPath ------------------------------
(***************************************************************************)
(* OurSplitPath (not on Windows): the directory and the name of a file, by *)
(* dirname and basename, which may cut off the string they are given and   *)
(* may return a pointer into it.  A path is a sequence of characters.      *)
(***************************************************************************)
EXTENDS Integers, Sequences, FiniteSetsExt

CONSTANTS
  Names,     \* the characters of names
  MaxLength  \* bound on the paths: 1024 in the code, which does not check it

VARIABLES
  path, wanted,        \* the arguments: which of dir and base are not null
  resolved_path_copy,
  dir, base, spc

vars == <<path, wanted, resolved_path_copy, dir, base, spc>>

Slash == "/"
CurrentDir == <<".">>

Paths == UNION {[1 .. n -> Names \cup {Slash}] : n \in 0 .. MaxLength}

\* Both results are emptied first.
Init ==
  /\ path \in Paths
  /\ wanted \in SUBSET {"dir", "base"}
  /\ resolved_path_copy = path
  /\ dir = <<>> /\ base = <<>>
  /\ spc = "dirname"

(***************************************************************************)
(* POSIX: what dirname and basename return.                                *)
(***************************************************************************)
UpToLast(s, kept) == SubSeq(s, 1, Max({0} \cup {k \in 1 .. Len(s) : s[k] \in kept}))

Trimmed(s) == UpToLast(s, Names)
Above(s)   == UpToLast(Trimmed(s), {Slash})

dirname(s) ==
  IF Trimmed(Above(s)) # <<>> THEN Trimmed(Above(s))
  ELSE IF s # <<>> /\ s[1] = Slash THEN <<Slash>>
  ELSE CurrentDir

basename(s) ==
  IF Trimmed(s) # <<>> THEN SubSeq(Trimmed(s), Len(Above(s)) + 1, Len(Trimmed(s)))
  ELSE IF s # <<>> THEN <<Slash>>
  ELSE CurrentDir

\* The string is left alone, or cut to what was returned or searched.
Left(s) == {s, Trimmed(s)} \cup (IF dirname(s) = CurrentDir THEN {} ELSE {dirname(s)})

-----------------------------------------------------------------------------
Dirname ==
  /\ spc = "dirname"
  /\ dir' = IF "dir" \in wanted THEN dirname(resolved_path_copy) ELSE dir
  /\ resolved_path_copy' \in Left(resolved_path_copy)
  /\ spc' = "copy"
  /\ UNCHANGED <<path, wanted, base>>

\* "we need to work on a copy": a fresh one for basename.
CopyAgain_Once ==
  /\ spc = "copy"
  /\ spc' = "basename"
  /\ UNCHANGED <<path, wanted, resolved_path_copy, dir, base>>

CopyAgain ==
  /\ spc = "copy"
  /\ resolved_path_copy' = path
  /\ spc' = "basename"
  /\ UNCHANGED <<path, wanted, dir, base>>

Basename ==
  /\ spc = "basename"
  /\ base' = IF "base" \in wanted THEN basename(resolved_path_copy) ELSE base
  /\ resolved_path_copy' \in Left(resolved_path_copy)
  /\ spc' = "return"
  /\ UNCHANGED <<path, wanted, dir>>

Next == Dirname \/ CopyAgain \/ Basename

-----------------------------------------------------------------------------
\* The names between the slashes of s, except those that are ignored.
EndsAt(s, k)  == s[k] # Slash /\ (k = Len(s) \/ s[k + 1] = Slash)
StartOf(s, k) == Max({j \in 1 .. k : j = 1 \/ s[j - 1] = Slash})
NameAt(s, k)  == SubSeq(s, StartOf(s, k), k)

NamesIn(s, ignored) ==
  LET names[k \in 0 .. Len(s)] ==
        IF k = 0 THEN <<>>
        ELSE names[k - 1] \o IF EndsAt(s, k) /\ NameAt(s, k) \notin ignored
                              THEN <<NameAt(s, k)>> ELSE <<>>
  IN  names[Len(s)]

\* Where s leads: "." is where one is.
Denoted(s) == NamesIn(s, {CurrentDir})

IsAbsolute(s) == s # <<>> /\ s[1] = Slash

(***************************************************************************)
(* FunctionTrace.cpp:40 prints the result: directory and name denote the   *)
(* file again, the name is the last one of the path, and neither depends   *)
(* on what dirname did to its copy or on whether the other is wanted.      *)
(***************************************************************************)
SplitsPath ==
  spc = "return" =>
    LET names == NamesIn(path, {})
        name  == IF names = <<>> THEN <<>> ELSE names[Len(names)]
    IN  /\ "base" \in wanted => IF names = <<>> THEN Denoted(base) = <<>> ELSE base = name
        /\ "dir" \in wanted => /\ Denoted(dir) \o Denoted(name) = Denoted(path)
                               /\ IsAbsolute(dir) <=> IsAbsolute(path)

=============================================================================
