------------------------------- MODULE MCWalk --------------------------------
(* Walk for TLC: a directory deeper than each walk goes, a walk that finds more
   than fits, programs in three directories that overflow the list together, and
   a name that is not UTF-8. *)
EXTENDS Walk

N(kind, marks) == [kind |-> kind, marks |-> marks]
Dir == N("dir", {"rootOwned"})
Null == N("char", {"worldWritable", "rootOwned"})
Tool == N("regular", {"setuid", "rootOwned"})
Plain == N("regular", {})
Link == N("symlink", {})

MCPaths ==
  {<<"dev">>, <<"dev", "null">>, <<"dev", "fd">>, <<"dev", "fd", "d">>, <<"dev", "fd", "d", "x">>,
   <<"sys">>, <<"sys", "a">>, <<"sys", "a", "b">>, <<"sys", "a", "b", "c">>,
   <<"sys", "a", "b", "c", "d">>, <<"sys", "a", "b", "c", "d", "e">>,
   <<"sys", "a", "b", "f">>, <<"sys", "a", "b", "c", "f">>,
   <<"bin">>, <<"bin", "sh">>, <<"bin", "su">>, <<"sbin">>, <<"sbin", "fsck">>,
   <<"usr/bin">>, <<"usr/bin", "?">>, <<"usr/bin", "vi">>, <<"usr/bin", "at">>, <<"usr/bin", "ed">>}

MCNotUtf8 == {<<"usr/bin", "?">>}

Whole ==
  [p \in MCPaths |->
    IF p = <<"dev", "null">> THEN Null
    ELSE IF p \in {<<"bin", "su">>, <<"usr/bin", "at">>} THEN Tool
    ELSE IF p \in {<<"bin", "sh">>, <<"sbin", "fsck">>, <<"usr/bin", "vi">>, <<"usr/bin", "ed">>,
                   <<"usr/bin", "?">>, <<"sys", "a", "b", "f">>, <<"sys", "a", "b", "c", "f">>} THEN Plain
    ELSE Dir]

(* FreeBSD without /sys, and with little else. *)
Small == [p \in MCPaths |->
  IF p \in {<<"dev">>, <<"bin">>} THEN Dir
  ELSE IF p = <<"dev", "null">> THEN Link ELSE IF p = <<"bin", "su">> THEN Tool
  ELSE Absent]

MCTrees == {Whole, Small}
MCNewNodes == {Dir, Plain, Link}
=============================================================================
