------------------------------- MODULE Paths -------------------------------
(***************************************************************************)
(* Paths and what the kernel does with them.  A path is a sequence of      *)
(* tokens: "/", the names, and "." and "..", which are tokens wherever     *)
(* they stand.  A name may be several tokens: <<"tmp", "x">> is "tmpx",    *)
(* and <<"a", "..">> is the name "a..".  Dots that stand together are at   *)
(* most one "." followed by one "..", so that a token reads as the C code  *)
(* reads the characters.  Paths are shorter than the arrays that hold them.*)
(***************************************************************************)
EXTENDS Integers, Sequences, SequencesExt

Slash == <<"/">>
TMP == <<"/", "tmp">>
TMP_SLASH == <<"/", "tmp", "/">>

\* strncmp(p, q, strlen(q)) == 0, and the rest p + k of a path.
Begins(p, q) == IsPrefix(q, p)
After(p, k) == SubSeq(p, k + 1, Len(p))

EndsInSlash(p) == p # <<>> /\ Last(p) = "/"

\* Position of strrchr(p, '/'), 0 for NULL.
LastSlash(p) == SelectLastInSeq(p, LAMBDA t : t = "/")

\* The full_path of a path, in every operation that looks at the cwd.
full_path(cwd, path) ==
  IF path # <<>> /\ path[1] = "/" THEN path
  ELSE cwd \o (IF EndsInSlash(cwd) THEN <<>> ELSE Slash) \o path

-----------------------------------------------------------------------------
(* vfs_normalize_path.                                                     *)

EndsComponent(p, i) == i = Len(p) \/ p[i + 1] = "/"

\* Mutated form of Up: the last component goes, its "/" stays.
Up_to_slash(dst) == SubSeq(dst, 1, LastSlash(dst))

\* dst-- and then back to behind the last "/", which leaves "a/" of "a/b/".
Up(dst) == SubSeq(dst, 1, LastSlash(SubSeq(dst, 1, Len(dst) - 1)))

\* One turn of the loop: src is at token i.
NormalizeTurn(dst, p, i) ==
  CASE p[i] = "/" /\ i > 1 /\ (dst = <<>> \/ EndsInSlash(dst))  -> dst
    [] p[i] = "." /\ EndsComponent(p, i)  -> dst
    [] p[i] = ".." /\ EndsComponent(p, i) -> IF Len(dst) > 1 THEN Up(dst) ELSE dst
    [] OTHER -> Append(dst, p[i])

vfs_normalize_path(path) ==
  LET dst[i \in 0 .. Len(path)] ==
        IF i = 0 THEN <<>> ELSE NormalizeTurn(dst[i - 1], path, i)
      temp == dst[Len(path)]
  IN  CASE temp = <<>> -> Slash
        [] Len(temp) > 1 /\ EndsInSlash(temp) -> Front(temp)
        [] OTHER -> temp

-----------------------------------------------------------------------------
(* What a path means, component by component.                              *)

\* The components, as strtok_r(path, "/") gives them: sequences of tokens.
Components(path) ==
  LET c[i \in 0 .. Len(path)] ==
        CASE i = 0 -> <<>>
          [] i > 0 /\ path[i] = "/" -> c[i - 1]
          [] i > 1 /\ path[i] # "/" /\ path[i - 1] # "/" ->
               Append(Front(c[i - 1]), Append(Last(c[i - 1]), path[i]))
          [] OTHER -> Append(c[i - 1], <<path[i]>>)
  IN  c[Len(path)]

\* The components that are left when "." is skipped and ".." goes up.
Walk(cs) ==
  LET w[i \in 0 .. Len(cs)] ==
        CASE i = 0 -> <<>>
          [] i > 0 /\ cs[i] = <<".">> -> w[i - 1]
          [] i > 0 /\ cs[i] = <<"..">> -> IF w[i - 1] = <<>> THEN <<>> ELSE Front(w[i - 1])
          [] OTHER -> Append(w[i - 1], cs[i])
  IN  w[Len(cs)]

\* A component as vfs_normalize_path takes it, which looks for dots that end one and
\* not at what is before them (vfs.c:61, 66).  Two dots behind a name take the name
\* away and no more, as if "." stood there; one dot behind a name is dropped.
AsTaken(c) ==
  CASE Len(c) > 1 /\ Last(c) = ".." -> <<".">>
    [] Len(c) > 1 /\ Last(c) = "." -> Front(c)
    [] OTHER -> c

\* Where a path leads, its components as vfs_normalize_path takes them.
Destination(path) ==
  LET cs == Components(path) IN Walk([i \in DOMAIN cs |-> AsTaken(cs[i])])

\* The absolute path with components cs, one "/" before each of them.
PathOf(cs) == IF cs = <<>> THEN Slash ELSE FoldLeft(LAMBDA p, c : p \o Slash \o c, <<>>, cs)

\* An absolute path that is its own walk.
Canonical(path) ==
  LET cs == Components(path) IN path = PathOf(cs) /\ Walk(cs) = cs
=============================================================================
