-------------------------------- MODULE Ftw --------------------------------
(***************************************************************************)
(* The walk through a file hierarchy of apue.3e/filedir/ftw8.c, with the   *)
(* buffer of lib/pathalloc.c, while another process removes files.  The    *)
(* recursion of dopath is a stack; its frame has the directory, the length *)
(* n of its path with the slash, and the entries still to be read.         *)
(***************************************************************************)
EXTENDS Integers, Sequences, FiniteSets

CONSTANTS
  Files, Root,      \* the files, and the one that the walk starts at
  Parent, NameLen,  \* each file's directory, the length of its name
  Kind, Target,     \* "reg", "dir" or "slink"; what a link leads to
  NAME_MAX, pathmax \* limits: of a name, and what path_alloc takes for a path

VARIABLES
  exists, readable, \* the file system
  stack, next,      \* the calls of dopath; the file whose call is due, or "none"
  path, pathlen,    \* length of the string in fullpath, and of the buffer
  visited,          \* history: how often func was called for a file, by type
  count, changed    \* nreg, ndir, nslink; history: files removed or unreadable

vars == <<exists, readable, stack, next, path, pathlen, visited, count, changed>>

None == "none"
FtwTypes == {"F", "D", "DNR", "NS"}
Children(f) == {g \in Files \ {Root} : Parent[g] = f}
(* Mutation: stat, which follows links. *)
Stat(f) == IF Kind[f] = "slink" THEN Kind[Target[f]] ELSE Kind[f]
Lstat(f) == Kind[f]

(* path_alloc, and myftw's own enlargement for a long name. *)
path_alloc(posix2001) == IF posix2001 THEN pathmax ELSE pathmax + 1
myftw(size) == IF size <= NameLen[Root] THEN 2 * NameLen[Root] ELSE size

Init ==
  /\ exists = Files /\ readable = Files /\ stack = <<>> /\ next = Root
  /\ path = NameLen[Root] /\ \E posix2001 \in BOOLEAN : pathlen = myftw(path_alloc(posix2001))
  /\ visited = [f \in Files |-> [t \in FtwTypes |-> 0]]
  /\ count = [k \in {"reg", "dir", "slink"} |-> 0] /\ changed = {}

(* func: count by type; of files that are not directories by their mode. *)
myfunc(f, t, mode) ==
  /\ visited' = [visited EXCEPT ![f][t] = @ + 1]
  /\ count' = CASE t = "F" -> [count EXCEPT ![mode] = @ + 1]
                [] t = "D" -> [count EXCEPT !["dir"] = @ + 1]
                [] OTHER -> count

(* Mutation: the buffer does not grow. *)
SameSize == pathlen

(* The start of dopath.  For a directory that cannot be opened func is       *)
(* called twice, and the slash is left behind its path.                      *)
Expand == IF path + NAME_MAX + 2 > pathlen THEN 2 * pathlen ELSE pathlen

dopath ==
  /\ next # None /\ next' = None
  /\ IF next \notin exists
     THEN myfunc(next, "NS", "") /\ UNCHANGED <<stack, path, pathlen>>
     ELSE IF Lstat(next) # "dir"
     THEN myfunc(next, "F", Lstat(next)) /\ UNCHANGED <<stack, path, pathlen>>
     ELSE /\ myfunc(next, "D", "") /\ pathlen' = Expand /\ path' = path + 1
          /\ stack' = Append(stack, [dir |-> next, n |-> path + 1, todo |-> {}, open |-> FALSE])
  /\ UNCHANGED <<exists, readable, changed>>

Top == stack[Len(stack)]
SetTop(fr) == [stack EXCEPT ![Len(stack)] = fr]
Pop == SubSeq(stack, 1, Len(stack) - 1)

opendir ==
  /\ next = None /\ stack # <<>> /\ ~Top.open
  /\ IF Top.dir \in exists \cap readable
     THEN /\ stack' = SetTop([Top EXCEPT !.todo = Children(Top.dir) \cap exists, !.open = TRUE])
          /\ UNCHANGED <<visited, count>>
     ELSE stack' = Pop /\ myfunc(Top.dir, "DNR", "")
  /\ UNCHANGED <<exists, readable, next, path, pathlen, changed>>

(* readdir without dot and dot-dot: the entries of the moment the directory  *)
(* was opened, in any order; the name goes behind the slash.                 *)
readdir ==
  /\ next = None /\ stack # <<>> /\ Top.open
  /\ \E f \in Top.todo :
       /\ next' = f /\ path' = Top.n + NameLen[f]
       /\ stack' = SetTop([Top EXCEPT !.todo = @ \ {f}])
  /\ UNCHANGED <<exists, readable, pathlen, visited, count, changed>>

closedir ==
  /\ next = None /\ stack # <<>> /\ Top.open /\ Top.todo = {}
  /\ stack' = Pop /\ path' = Top.n - 1
  /\ UNCHANGED <<exists, readable, next, pathlen, visited, count, changed>>

(* Another process removes a file or an empty directory, or takes away the   *)
(* permission to read one.                                                   *)
Meddle(f) ==
  /\ changed' = changed \cup {f} /\ f \notin changed
  /\ \/ Children(f) \cap exists = {} /\ exists' = exists \ {f} /\ UNCHANGED readable
     \/ Kind[f] = "dir" /\ readable' = readable \ {f} /\ UNCHANGED exists
  /\ UNCHANGED <<stack, next, path, pathlen, visited, count>>

walk == dopath \/ opendir \/ readdir \/ closedir
Done == next = None /\ stack = <<>>

Next == walk \/ \E f \in Files : Meddle(f)

-----------------------------------------------------------------------------
(* The path that is about to be visited, and the slash and the null byte     *)
(* behind a directory's path, have room in the buffer at every depth.        *)
PathFits == path + 1 <= pathlen

(* The path is that of the file to visit, whatever came before it: nothing   *)
(* of an earlier, deeper path is left in it.                                 *)
PathOf[f \in Files] == IF f = Root THEN NameLen[f] ELSE PathOf[Parent[f]] + 1 + NameLen[f]
PathIsFiles == next # None => path = PathOf[next]

(* Every file is visited once as a file, a directory or an error; links are  *)
(* not followed; and what nobody meddled with, up to the root, is counted.   *)
(* Safe is the largest set of such files that has the directory of each.     *)
Safe == UNION {S \in SUBSET (Files \ changed) : \A f \in S : f = Root \/ Parent[f] \in S}
VisitedOnce ==
  /\ \A f \in Files : visited[f]["F"] + visited[f]["D"] + visited[f]["NS"] <= 1
  /\ \A k \in DOMAIN count : count[k] <= Cardinality({f \in Files : Kind[f] = k})
  /\ Done => \A f \in Safe :
       visited[f] = [t \in FtwTypes |-> IF t = (IF Kind[f] = "dir" THEN "D" ELSE "F") THEN 1 ELSE 0]
=============================================================================
