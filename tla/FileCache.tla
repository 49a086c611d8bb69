----------------------------- MODULE FileCache -----------------------------
(***************************************************************************)
(* The file cache of src/lib/cache/file/file.go, used by goroutines that   *)
(* share one Cacher.  A key's value is the file rootPath/h0/h1/md5(key);   *)
(* nothing is locked.  Put is MkdirAll (its error ignored) and then        *)
(* ioutil.WriteFile, which opens the file with O_TRUNC|O_CREATE, writes    *)
(* the value at offset 0 and closes it: three steps other goroutines       *)
(* interleave with.  Get reads the whole file (ioutil.ReadFile) and        *)
(* returns nil on any error.  Delete unlinks the file, Flush removes the   *)
(* whole tree; a goroutine holding the file open then writes to an        *)
(* unlinked inode.  The file system is the environment; one system call    *)
(* is one step.  The md5 path is a constant map from keys to files.       *)
(***************************************************************************)
EXTENDS Naturals, Sequences, FiniteSets

CONSTANTS
    Keys,       \* the cache keys the callers use
    Vals,       \* the values callers Put: non-empty sequences of bytes
    Path,       \* Path[k]: the file of key k (c.filepath)
    DirOf,      \* DirOf[f]: the directory h0/h1 holding file f
    Clients,    \* goroutines sharing the Cacher
    Ops,        \* the calls a goroutine may make: "Put", "Get", "Delete", "IsExist", "Flush"
    MaxCalls    \* bound on the calls, over all goroutines

Files == {Path[k] : k \in Keys}
Dirs == {DirOf[f] : f \in Files}
Absent == <<"absent">>                  \* no such file (a value no Put writes)
NoVal == <<>>
Closed == [f |-> "none", gen |-> 0]
(* What a call returned: a kind and, for a Get that read a file, its bytes. *)
Ret(kind, bytes) == [k |-> kind, v |-> bytes]
Range(s) == {s[i] : i \in DOMAIN s}

VARIABLES
    dirs,       \* the directories that exist
    files,      \* files[f]: the bytes of file f, or Absent
    gen,        \* gen[f]: times f was unlinked (the inode an open file descriptor names)
    cs,         \* cs[c]: pc, op, key, value, open file and return of c's call
    calls,      \* calls made so far
    written     \* history: the values Put was called with

vars == <<dirs, files, gen, cs, calls, written>>

Pcs == {"idle", "mkdir", "open", "write"}

TypeOK ==
    /\ dirs \subseteq Dirs
    /\ \A f \in Files : files[f] = Absent \/ files[f] \in Seq(UNION {Range(v) : v \in Vals})
    /\ gen \in [Files -> 0..MaxCalls]
    /\ \A c \in Clients : cs[c].pc \in Pcs
    /\ calls \in 0..MaxCalls
    /\ written \subseteq Vals

Init ==
    /\ dirs = {} /\ files = [f \in Files |-> Absent] /\ gen = [f \in Files |-> 0]
    /\ cs = [c \in Clients |-> [pc |-> "idle", op |-> "none", key |-> CHOOSE k \in Keys : TRUE,
                                val |-> NoVal, fd |-> Closed, ret |-> Ret("none", NoVal)]]
    /\ calls = 0 /\ written = {}

At(c, l) == cs[c].pc = l
Return(c, r) == cs' = [cs EXCEPT ![c].pc = "idle", ![c].ret = r]
(* write(2) of v at offset 0: the bytes of v replace the file's first      *)
(* Len(v) bytes; a longer file keeps its tail.                             *)
Overlay(old, v) ==
    [i \in 1..IF Len(old) > Len(v) THEN Len(old) ELSE Len(v) |->
        IF i <= Len(v) THEN v[i] ELSE old[i]]

-----------------------------------------------------------------------------
(* A call of the Cacher.  Get, Delete, IsExist and Flush are one system    *)
(* call each and return at once; Put starts with MkdirAll.                 *)
Call(c) ==
    /\ At(c, "idle") /\ calls < MaxCalls
    /\ calls' = calls + 1
    /\ \E op \in Ops, k \in Keys :
         LET f == Path[k] IN
         CASE op = "Put" ->
                \E v \in Vals :
                  /\ cs' = [cs EXCEPT ![c] = [@ EXCEPT !.pc = "mkdir", !.op = op, !.key = k,
                                                       !.val = v, !.ret = Ret("none", NoVal)]]
                  /\ written' = written \cup {v}
                  /\ UNCHANGED <<dirs, files, gen>>
           [] op = "Get" ->
                /\ cs' = [cs EXCEPT ![c] = [@ EXCEPT !.op = op, !.key = k,
                                  !.ret = IF files[f] = Absent THEN Ret("nil", NoVal)
                                                        ELSE Ret("val", files[f])]]
                /\ UNCHANGED <<dirs, files, gen, written>>
           [] op = "Delete" ->
                /\ files' = [files EXCEPT ![f] = Absent]
                /\ gen' = IF files[f] = Absent THEN gen ELSE [gen EXCEPT ![f] = @ + 1]
                /\ cs' = [cs EXCEPT ![c] = [@ EXCEPT !.op = op, !.key = k,
                                  !.ret = Ret(IF files[f] = Absent THEN "error" ELSE "ok", NoVal)]]
                /\ UNCHANGED <<dirs, written>>
           [] op = "IsExist" ->
                /\ cs' = [cs EXCEPT ![c] = [@ EXCEPT !.op = op, !.key = k,
                                                     !.ret = Ret(IF files[f] # Absent THEN "true" ELSE "false", NoVal)]]
                /\ UNCHANGED <<dirs, files, gen, written>>
           [] op = "Flush" ->
                /\ dirs' = {}
                /\ files' = [g \in Files |-> Absent]
                /\ gen' = [g \in Files |-> IF files[g] = Absent THEN gen[g] ELSE gen[g] + 1]
                /\ cs' = [cs EXCEPT ![c] = [@ EXCEPT !.op = op, !.ret = Ret("ok", NoVal)]]
                /\ UNCHANGED written

(* os.MkdirAll(filepath.Dir(filename), os.ModePerm); its error is ignored. *)
MkdirAll(c) ==
    /\ At(c, "mkdir")
    /\ dirs' = dirs \cup {DirOf[Path[cs[c].key]]}
    /\ cs' = [cs EXCEPT ![c].pc = "open"]
    /\ UNCHANGED <<files, gen, calls, written>>

(* WriteFile opens with O_WRONLY|O_CREATE|O_TRUNC: the file is created or  *)
(* emptied.  Without its directory (a Flush ran since MkdirAll) the open  *)
(* fails and Put returns the error.                                        *)
OpenTrunc(c) ==
    /\ At(c, "open")
    /\ LET f == Path[cs[c].key] IN
       IF DirOf[f] \notin dirs
       THEN /\ Return(c, Ret("error", NoVal))
            /\ UNCHANGED files
       ELSE /\ files' = [files EXCEPT ![f] = <<>>]
            /\ cs' = [cs EXCEPT ![c].pc = "write", ![c].fd = [f |-> f, gen |-> gen[f]]]
    /\ UNCHANGED <<dirs, gen, calls, written>>

(* The write at offset 0 and the close; Put returns nil.  A file unlinked  *)
(* since the open keeps the bytes in an inode no path names.               *)
WriteClose(c) ==
    /\ At(c, "write")
    /\ LET fd == cs[c].fd IN
       files' = IF gen[fd.f] = fd.gen /\ files[fd.f] # Absent
                THEN [files EXCEPT ![fd.f] = Overlay(@, cs[c].val)]
                ELSE files
    /\ cs' = [cs EXCEPT ![c].pc = "idle", ![c].fd = Closed, ![c].ret = Ret("ok", NoVal)]
    /\ UNCHANGED <<dirs, gen, calls, written>>

Next == \E c \in Clients : Call(c) \/ MkdirAll(c) \/ OpenTrunc(c) \/ WriteClose(c)

Spec == Init /\ [][Next]_vars

-----------------------------------------------------------------------------
(* Get returns nil or a value some Put was called with, whole: never the   *)
(* empty file a concurrent Put has just truncated, nor the bytes of two    *)
(* Puts of the same key written over each other.                           *)
GetReturnsPut ==
    \A c \in Clients : At(c, "idle") /\ cs[c].op = "Get" =>
        cs[c].ret.k = "nil" \/ cs[c].ret.v \in written

(* A file that no Put is writing holds a value some Put was called with:   *)
(* two WriteFile calls on one key that overlap leave neither's bytes.      *)
Writing(f) == \E c \in Clients : At(c, "write") /\ cs[c].fd.f = f
FileHoldsPut == \A f \in Files : ~Writing(f) => files[f] \in written \cup {Absent}
=============================================================================
