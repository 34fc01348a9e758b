------------------------------ MODULE WasiPath ------------------------------
(***************************************************************************)
(* VINode::resolvePath (lib/host/wasi/vinode.cpp): how a WASI path is      *)
(* resolved from a directory descriptor to the directory and name that the *)
(* system call gets.  The walk keeps the directories it came through in    *)
(* PartFds, which is what ".." goes back to; a symbolic link is replaced   *)
(* by its contents and the walk goes on from the directory of the link.    *)
(* The file system does not change during a walk.                          *)
(*                                                                         *)
(* A path is a record: absolute or not, its parts, and whether a slash     *)
(* follows the last one.  "" is [abs |-> FALSE, parts |-> <<>>, slash |->  *)
(* FALSE]; repeated slashes are one.                                       *)
(***************************************************************************)
EXTENDS Integers, Sequences

CONSTANTS
    Dirs,               \* directories
    Subdirs,            \* directory |-> [name |-> directory]
    Files,              \* directory |-> names of files
    Links,              \* directory |-> [name |-> path in a symbolic link]
    Bases,              \* what the descriptors given are for
    Browsable,          \* the directories the process may search
    PartNames,          \* what stands between two slashes of a path
    Paths,              \* the paths given
    kMaxNestedLinks

NoPath == [abs |-> FALSE, parts |-> <<>>, slash |-> FALSE]

IsPath(p) ==
    /\ p \in [abs : BOOLEAN, parts : Seq(PartNames), slash : BOOLEAN]
    /\ p.parts = <<>> /\ p.slash => p.abs

ASSUME PathAssumption ==
    /\ {".", ".."} \subseteq PartNames /\ "" \notin PartNames
    /\ \A p \in Paths : IsPath(p)
    /\ \A d \in Dirs :
         /\ DOMAIN Subdirs[d] \cup DOMAIN Links[d] \cup Files[d] \subseteq PartNames
         /\ DOMAIN Subdirs[d] \cap DOMAIN Links[d] = {}
         /\ \A n \in DOMAIN Subdirs[d] : Subdirs[d][n] \in Dirs
         /\ \A n \in DOMAIN Links[d] : IsPath(Links[d][n]) /\ Links[d][n] # NoPath
    /\ Browsable \subseteq Dirs
    /\ kMaxNestedLinks \in Nat

VARIABLES base, asked, Fd, PartFds, Path, follow, FollowTrailingSlashes, LinkCount,
          walk,        \* "check", "part" or "done"
          found,       \* what is returned
          dropped      \* history: a slash after a link is gone

given == <<base, asked, follow, FollowTrailingSlashes>>
pathVars == <<given, Fd, PartFds, Path, LinkCount, walk, found, dropped>>

IsDir(d, n) == n \in DOMAIN Subdirs[d]
IsLink(d, n) == n \in DOMAIN Links[d]
Has(d, n) == IsDir(d, n) \/ IsLink(d, n) \/ n \in Files[d]

(* The fstatat of a name in a directory that may be searched. *)
Stats(d, n) == d \in Browsable /\ Has(d, n)

Found(d, n) == [err |-> "ok", dir |-> d, name |-> n]
Fails(e) == [err |-> e, dir |-> "none", name |-> ""]

(* How the operations call it: path_open, path_filestat_* and path_link    *)
(* pass the caller's flag; path_symlink follows; path_readlink and         *)
(* path_unlink_file do not; path_create_directory, path_remove_directory   *)
(* and path_rename follow and drop a trailing slash.                       *)
PathInit ==
    /\ base \in Bases /\ Fd = base
    /\ PartFds = <<>>
    /\ asked \in Paths /\ Path = asked
    /\ \/ follow \in BOOLEAN /\ FollowTrailingSlashes = TRUE
       \/ follow = TRUE /\ FollowTrailingSlashes = FALSE
    /\ LinkCount = 0
    /\ walk = "check"
    /\ found = Fails("none")
    /\ dropped = FALSE

Ends(r) ==
    /\ walk' = "done" /\ found' = r
    /\ UNCHANGED <<given, Fd, PartFds, Path, LinkCount, dropped>>

(* The tests at the head of the outer loop, in their order. *)
CheckPath ==
    /\ walk = "check"
    /\ IF Path = NoPath THEN Ends(Fails("NOENT"))
       ELSE IF Path.abs THEN Ends(Fails("PERM"))
       ELSE IF Fd \notin Dirs THEN Ends(Fails("NOTDIR"))
       ELSE IF Fd \notin Browsable THEN Ends(Fails("ACCES"))
       ELSE /\ walk' = "part"
            /\ UNCHANGED <<given, Fd, PartFds, Path, LinkCount, found, dropped>>

Part == IF Path.parts = <<>> THEN "" ELSE Head(Path.parts)
Remain == IF Len(Path.parts) <= 1 THEN NoPath ELSE [Path EXCEPT !.parts = Tail(@)]
LastPart == Len(Path.parts) <= 1 /\ (FollowTrailingSlashes => ~Path.slash)

GoesOn(d, ds) ==
    /\ Fd' = d /\ PartFds' = ds /\ Path' = Remain
    /\ UNCHANGED <<given, LinkCount, walk, found, dropped>>

(* PartFds.back() and PartFds.pop_back(). *)
Back(ds) == ds[Len(ds)]
Popped(ds) == SubSeq(ds, 1, Len(ds) - 1)

(* After "." or ".." with a slash and nothing more, the path that remains  *)
(* is the empty one, and its only part the empty name.                     *)
Dot ==
    /\ walk = "part" /\ Part = "."
    /\ IF LastPart THEN Ends(Found(Fd, ".")) ELSE GoesOn(Fd, PartFds)

(* Mutant: ".." leaves the directory on PartFds. *)
DotDotKeeps ==
    /\ walk = "part" /\ Part = ".."
    /\ IF PartFds = <<>> THEN Ends(Fails("PERM"))
       ELSE IF LastPart THEN Ends(Found(Back(PartFds), "."))
       ELSE GoesOn(Back(PartFds), PartFds)

DotDot ==
    /\ walk = "part" /\ Part = ".."
    /\ IF PartFds = <<>> THEN Ends(Fails("PERM"))
       ELSE IF LastPart
         THEN /\ walk' = "done" /\ found' = Found(Back(PartFds), ".")
              /\ Fd' = Back(PartFds) /\ PartFds' = Popped(PartFds)
              /\ UNCHANGED <<given, Path, LinkCount, dropped>>
         ELSE GoesOn(Back(PartFds), Popped(PartFds))

Named == walk = "part" /\ Part \notin {".", ".."}
Unfollowed == LastPart /\ ~follow

(* The name itself is wanted, or it is the last and cannot be read. *)
TakeName ==
    /\ Named
    /\ Unfollowed \/ (LastPart /\ ~Stats(Fd, Part))
    /\ Ends(Found(Fd, Part))

NoEntry ==
    /\ Named /\ ~LastPart /\ ~Stats(Fd, Part)
    /\ Ends(Fails(IF Fd \in Browsable THEN "NOENT" ELSE "ACCES"))

(* Mutant: the rest of the path is forgotten. *)
FollowLinkAlone ==
    /\ Named /\ ~Unfollowed /\ Stats(Fd, Part) /\ IsLink(Fd, Part)
    /\ IF LinkCount + 1 >= kMaxNestedLinks THEN Ends(Fails("LOOP"))
       ELSE /\ Path' = Links[Fd][Part]
            /\ LinkCount' = LinkCount + 1
            /\ walk' = "check"
            /\ UNCHANGED <<given, Fd, PartFds, found, dropped>>

(* A link: its contents and what remains are the new path. *)
FollowLink ==
    /\ Named /\ ~Unfollowed /\ Stats(Fd, Part) /\ IsLink(Fd, Part)
    /\ IF LinkCount + 1 >= kMaxNestedLinks THEN Ends(Fails("LOOP"))
       ELSE LET to == Links[Fd][Part] IN
            /\ Path' = IF Remain = NoPath THEN to
                       ELSE [to EXCEPT !.parts = @ \o Remain.parts, !.slash = Remain.slash]
            /\ dropped' = (dropped \/ (FollowTrailingSlashes /\ Remain = NoPath
                                          /\ Path.slash /\ ~to.slash))
            /\ LinkCount' = LinkCount + 1
            /\ walk' = "check"
            /\ UNCHANGED <<given, Fd, PartFds, found>>

(* A file or a directory; O_PATH opens any directory. *)
TakeEntry ==
    /\ Named /\ ~Unfollowed /\ Stats(Fd, Part) /\ ~IsLink(Fd, Part)
    /\ IF LastPart THEN Ends(Found(Fd, Part))
       ELSE IF ~IsDir(Fd, Part) THEN Ends(Fails("NOTDIR"))
       ELSE IF Remain # NoPath THEN GoesOn(Subdirs[Fd][Part], Append(PartFds, Fd))
       ELSE /\ walk' = "done" /\ found' = Found(Subdirs[Fd][Part], ".")
            /\ Fd' = Subdirs[Fd][Part] /\ PartFds' = Append(PartFds, Fd)
            /\ UNCHANGED <<given, Path, LinkCount, dropped>>

PathNext ==
    \/ CheckPath
    \/ Dot
    \/ DotDot
    \/ TakeName
    \/ NoEntry
    \/ FollowLink
    \/ TakeEntry

PathSpec == PathInit /\ [][PathNext]_pathVars

-----------------------------------------------------------------------------
(* The type invariant. *)
PathTypeOK ==
    /\ PartFds \in Seq(Dirs)
    /\ walk \in {"check", "part", "done"}
    /\ LinkCount \in 0..kMaxNestedLinks

(* PartFds and Fd are a way down from the directory of the descriptor, each *)
(* directory an entry of the one before: ".." goes to the parent of where   *)
(* the walk is, and no path, with whatever links, leads out of the          *)
(* directory it was given for.                                              *)
BeneathBase ==
    LET way == Append(PartFds, Fd) IN
      /\ way[1] = base
      /\ \A i \in 1..Len(PartFds) : \E n \in DOMAIN Subdirs[way[i]] : Subdirs[way[i]][n] = way[i + 1]
      /\ found.err = "ok" => found.dir = Fd /\ Fd \in Dirs

(* What POSIX says of a path: a slash at the end stands for "/.", a link    *)
(* for its contents, and the last name is followed if asked for.            *)
PartsOf(p, slashes) == p.parts \o (IF p.slash /\ slashes THEN <<".">> ELSE <<>>)

(* The directory or the name a result stands for. *)
Object(d, n) ==
    IF n = "." THEN Found(d, ".")
    ELSE IF IsDir(d, n) THEN Found(Subdirs[d][n], ".")
    ELSE Found(d, n)

(* A resolution goes on from the directories come through, with the names   *)
(* to go and the number of links followed.                                  *)
Stages == {way \in Seq(Dirs) : way # <<>>} \X Seq(PartNames) \X Nat

(* R resolves the later stages.  A slash between the contents of a link and *)
(* the names after it only separates them.                                  *)
Resolve(R, last, slashes, at) ==
    LET way == at[1]
        names == at[2]
        links == at[3]
        d == Back(way)
        n == Head(names)
        more == Tail(names) IN
    IF names = <<>> \/ names = <<".">> THEN Found(d, ".")
    ELSE IF n = "." THEN R[<<way, more, links>>]
    ELSE IF n = ".." THEN IF Len(way) = 1 THEN Fails("PERM") ELSE R[<<Popped(way), more, links>>]
    ELSE IF more = <<>> /\ (~last \/ ~Stats(d, n)) THEN Object(d, n)
    ELSE IF d \notin Browsable THEN Fails("ACCES")
    ELSE IF ~Has(d, n) THEN Fails("NOENT")
    ELSE IF IsLink(d, n)
      THEN LET to == Links[d][n] IN
           IF links + 1 >= kMaxNestedLinks THEN Fails("LOOP")
           ELSE IF to.abs THEN Fails("PERM")
           ELSE IF more = <<>> THEN R[<<way, PartsOf(to, slashes), links + 1>>]
           ELSE R[<<way, to.parts \o more, links + 1>>]
    ELSE IF more = <<>> THEN Object(d, n)
    ELSE IF IsDir(d, n) THEN R[<<Append(way, Subdirs[d][n]), more, links>>]
    ELSE Fails("NOTDIR")

Reference(last, slashes) ==
    LET R[at \in Stages] == Resolve(R, last, slashes, at) IN R

(* What the system call that gets a result finds: openat and fstatat have   *)
(* no entry for the empty name.                                             *)
Meaning(r) ==
    IF r.err # "ok" THEN r
    ELSE IF r.name = "" THEN Fails("NOENT")
    ELSE Object(r.dir, r.name)

(* What the path p from b is. *)
Specified(b, p, last, slashes) ==
    IF p = NoPath THEN Fails("NOENT")
    ELSE IF p.abs THEN Fails("PERM")
    ELSE IF b \notin Dirs THEN Fails("NOTDIR")
    ELSE IF b \notin Browsable THEN Fails("ACCES")
    ELSE Reference(last, slashes)[<<<<b>>, PartsOf(p, slashes), 0>>]

(* A path that ends in "./" or "../", among the one asked for and those in  *)
(* links.                                                                   *)
DotSlash(p) == p.slash /\ p.parts # <<>> /\ Back(p.parts) \in {".", ".."}
LinkPaths == UNION {{Links[d][n] : n \in DOMAIN Links[d]} : d \in Dirs}
EndsInDots == FollowTrailingSlashes /\ \E p \in {asked} \cup LinkPaths : DotSlash(p)

(* A finished walk found what the reference finds, or fails as it does.     *)
(* The code differs in two cases.  The slash in "l/", where l is a link, is *)
(* not kept when the contents of l take its place.  And resolvePath returns *)
(* the empty name, with which the call fails, only for a path that ends in  *)
(* "./" or "../": there the reference finds the directory that the walk     *)
(* stands in, and the comment of resolvePath promises ".".                  *)
ResolvesAsReference ==
    walk = "done" /\ ~dropped =>
      LET specified == Specified(base, asked, follow, FollowTrailingSlashes) IN
      IF found.err = "ok" /\ found.name = ""
        THEN specified = Found(found.dir, ".") /\ EndsInDots
        ELSE specified = Meaning(found)

=============================================================================
