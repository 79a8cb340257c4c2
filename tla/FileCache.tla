------------------------------ MODULE FileCache ------------------------------
(***************************************************************************)
(* economy.FileCache, one entry: goroutines of the MCP server and of CLI   *)
(* processes load and save <key>.json.  A save writes <key>.json.tmp and   *)
(* renames it; all savers of a key share that name, so a file opened by    *)
(* one may be renamed, truncated or written by another.                    *)
(***************************************************************************)
CONSTANTS
    Users,      \* goroutines, of one process or several
    Values,     \* what a save of this key can store
    Inodes,     \* file objects; one nobody refers to is free
    Empty,      \* content of a file that was created or truncated
    Torn,       \* content left by two writers, no JSON
    Nil

ASSUME ContentAssumption ==
    /\ {Empty, Torn, Nil} \cap Values = {}
    /\ Empty # Torn /\ Empty # Nil /\ Torn # Nil
ASSUME InodeAssumption == Nil \notin Inodes

VARIABLES
    entry,      \* the inode <key>.json names
    tmp,        \* the inode <key>.json.tmp names
    content,    \* what each inode holds
    proc,       \* what each goroutine is doing with this key
    overlapped  \* history: two saves were in progress at the same time

cacheVars == <<entry, tmp, content, proc, overlapped>>

Contents == Values \cup {Empty, Torn}
ProcSteps == {"write", "rename", "saved", "refused", "read", "hit", "miss", "unreadable"}
Proc == {r \in [step : ProcSteps, val : Values \cup {Nil}, fd : Inodes \cup {Nil},
                solo : BOOLEAN] :
           /\ r.step \in {"write", "rename"} => r.val # Nil
           /\ r.step \in {"write", "rename", "read"} => r.fd # Nil}

ASSUME ProcAssumption == Nil \notin Proc

CacheTypeOK ==
    /\ entry \in Inodes \cup {Nil}
    /\ tmp \in Inodes \cup {Nil}
    /\ content \in [Inodes -> Contents]
    /\ proc \in [Users -> Proc \cup {Nil}]
    /\ overlapped \in BOOLEAN

CacheInit ==
    /\ entry = Nil
    /\ tmp = Nil
    /\ content = [i \in Inodes |-> Empty]
    /\ proc = [p \in Users |-> Nil]
    /\ overlapped = FALSE

Doing(p, step) == proc[p] # Nil /\ proc[p].step = step
Saving(p) == Doing(p, "write") \/ Doing(p, "rename")

Unused(i) ==
    /\ i # entry /\ i # tmp
    /\ \A p \in Users : proc[p] # Nil => proc[p].fd # i

-----------------------------------------------------------------------------
(* Save.                                                                   *)

\* <key>.json.tmp is created, or is the one another saver has left or is using.
Open(p, v, i) ==
    /\ proc[p] = Nil
    /\ i = tmp \/ (tmp = Nil /\ Unused(i))
    /\ LET others == {q \in Users : Saving(q)} IN
         /\ proc' = [q \in Users |->
                       IF q = p THEN [step |-> "write", val |-> v, fd |-> i,
                                      solo |-> others = {}]
                       ELSE IF proc[q] # Nil THEN [proc[q] EXCEPT !.solo = FALSE]
                       ELSE Nil]
         /\ overlapped' = (overlapped \/ others # {})
    /\ tmp' = i

\* Mutant: the entry itself is opened and rewritten in place.
SaveOpenInPlace(p, v, i) ==
    /\ Open(p, v, i)
    /\ content' = [content EXCEPT ![i] = Empty]
    /\ entry' = i

\* Mutant: the temporary file is opened without O_TRUNC.
SaveOpenOver(p, v, i) ==
    /\ Open(p, v, i)
    /\ UNCHANGED <<content, entry>>

\* os.WriteFile opens the temporary file with O_CREATE and O_TRUNC.
SaveOpen(p, v, i) ==
    /\ Open(p, v, i)
    /\ content' = [content EXCEPT ![i] = Empty]
    /\ UNCHANGED entry

\* Over another writer's longer text the tail of it stays.
SaveWrite(p) ==
    /\ Doing(p, "write")
    /\ LET i == proc[p].fd IN
       \E c \in {proc[p].val} \cup (IF content[i] = Empty THEN {} ELSE {Torn}) :
          content' = [content EXCEPT ![i] = c]
    /\ proc' = [proc EXCEPT ![p].step = "rename"]
    /\ UNCHANGED <<entry, tmp, overlapped>>

SaveRename(p) ==
    /\ Doing(p, "rename") /\ tmp # Nil
    /\ entry' = tmp
    /\ tmp' = Nil
    /\ proc' = [proc EXCEPT ![p].step = "saved", ![p].fd = Nil]
    /\ UNCHANGED <<content, overlapped>>

\* Another saver has renamed the file: the save fails.
SaveRefused(p) ==
    /\ Doing(p, "rename") /\ tmp = Nil
    /\ proc' = [proc EXCEPT ![p].step = "refused", ![p].fd = Nil]
    /\ UNCHANGED <<entry, tmp, content, overlapped>>

-----------------------------------------------------------------------------
(* Load.                                                                   *)

LoadMiss(p) ==
    /\ proc[p] = Nil /\ entry = Nil
    /\ proc' = [proc EXCEPT ![p] = [step |-> "miss", val |-> Nil, fd |-> Nil,
                                    solo |-> FALSE]]
    /\ UNCHANGED <<entry, tmp, content, overlapped>>

\* Mutant: a file that does not exist is read as if it did.
LoadOpenUnchecked(p) ==
    /\ proc[p] = Nil
    /\ proc' = [proc EXCEPT ![p] = [step |-> "read", val |-> Nil, fd |-> entry,
                                    solo |-> FALSE]]
    /\ UNCHANGED <<entry, tmp, content, overlapped>>

LoadOpen(p) ==
    /\ proc[p] = Nil /\ entry # Nil
    /\ proc' = [proc EXCEPT ![p] = [step |-> "read", val |-> Nil, fd |-> entry,
                                    solo |-> FALSE]]
    /\ UNCHANGED <<entry, tmp, content, overlapped>>

LoadRead(p) ==
    /\ Doing(p, "read")
    /\ LET c == content[proc[p].fd] IN
       proc' = [proc EXCEPT ![p].step = IF c \in Values THEN "hit" ELSE "unreadable",
                            ![p].val = IF c \in Values THEN c ELSE Nil,
                            ![p].fd = Nil]
    /\ UNCHANGED <<entry, tmp, content, overlapped>>

\* The call is over, or its process dies in the middle of it.
Leave(p) ==
    /\ proc[p] # Nil
    /\ proc' = [proc EXCEPT ![p] = Nil]
    /\ UNCHANGED <<entry, tmp, content, overlapped>>

CacheNext ==
    \E p \in Users :
        \/ \E v \in Values, i \in Inodes : SaveOpen(p, v, i)
        \/ SaveWrite(p) \/ SaveRename(p) \/ SaveRefused(p)
        \/ LoadMiss(p) \/ LoadOpen(p) \/ LoadRead(p)
        \/ Leave(p)

CacheSpec == CacheInit /\ [][CacheNext]_cacheVars

-----------------------------------------------------------------------------
(* Properties.                                                             *)

\* As long as no two saves of the key overlap, the entry is never half-written,
\* wherever a saver's process dies, and no load finds it unreadable
\* (cache.go:49-63: the temporary file and the rename).
EntryWhole ==
    ~overlapped =>
        /\ entry # Nil => content[entry] \in Values
        /\ \A p \in Users : ~Doing(p, "unreadable")

\* A save nothing overlapped is not refused, and what it stored is the entry,
\* whatever earlier savers left behind: torn entries and temporary files heal.
SoloSaveStored ==
    \A p \in Users : proc[p] # Nil /\ proc[p].solo =>
        /\ proc[p].step # "refused"
        /\ proc[p].step = "saved" => entry # Nil /\ content[entry] = proc[p].val

-----------------------------------------------------------------------------
(* Why they hold: the inductive invariant.                                 *)

\* A solo saver owns the temporary file, then the entry.
SoloInv(p) ==
    /\ Saving(p) => proc[p].fd = tmp /\ \A q \in Users : Saving(q) => q = p
    /\ Doing(p, "write") => content[tmp] = Empty
    /\ Doing(p, "rename") => content[tmp] = proc[p].val
    /\ ~Doing(p, "refused")
    /\ Doing(p, "saved") => /\ \A q \in Users : ~Saving(q)
                         /\ entry # Nil /\ content[entry] = proc[p].val

\* Before the first overlap every saver is solo and every reader has a whole file
\* that nobody writes.
CalmInv ==
    /\ \A p \in Users : Saving(p) => proc[p].solo
    /\ entry # Nil => content[entry] \in Values
    /\ \A p \in Users : /\ ~Doing(p, "unreadable")
                        /\ Doing(p, "read") => /\ proc[p].fd # tmp
                                            /\ content[proc[p].fd] \in Values

FileInv ==
    /\ entry # Nil => entry # tmp
    /\ \A p \in Users : proc[p] # Nil /\ proc[p].solo => SoloInv(p)
    /\ ~overlapped => CalmInv
==============================================================================
