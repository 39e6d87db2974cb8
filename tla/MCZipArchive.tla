---------------------------- MODULE MCZipArchive ----------------------------
(***************************************************************************)
(* Instances of ZipArchive: a file, another one, a directory and a name    *)
(* the writer refuses; contents that are empty, short, long, and a stored  *)
(* archive with an end record of its own.                                  *)
(***************************************************************************)
EXTENDS ZipArchive

Name(id, form) == [id |-> id, form |-> form]
ManyNames == {Name(1, "file"), Name(2, "dir"), Name(3, "bad")}
OneName == {Name(1, "file")}

A == [t |-> "byte", of |-> 1]
B == [t |-> "byte", of |-> 2]
Plain == {<<>>, <<A>>, <<A, B>>}

\* Writers whose writes and allocations may fail, with aligned members.
Writing == [names |-> ManyNames, contents |-> Plain, appended |-> {}, reserve |-> 1, align |-> 2,
            stubs |-> {}, faults |-> {"add_write", "final_write", "alloc"},
            members |-> 3, cells |-> 12]

\* Archives saved behind stubs and copied from, member by member.
Copying == [Writing EXCEPT !.names = OneName, !.contents = {<<A>>, <<A, B>>}, !.stubs = {0, 1},
                           !.members = 2, !.cells = 6,
                           !.faults = {"add_write", "copy_write", "alloc"}]

\* Members that look like the end of an archive.
Nested == [Copying EXCEPT !.contents = {<<A>>, <<A, EndRecord(0, 0, 0)>>}, !.reserve = 0,
                          !.align = 1, !.stubs = {1}, !.faults = {"add_write", "final_write"}]

\* Appends in place, with a reader open or not.
Appending == [names |-> {Name(1, "file"), Name(2, "dir")}, contents |-> {<<A>>},
              appended |-> {<<>>, <<A, B>>}, reserve |-> 0, align |-> 1, stubs |-> {0},
              faults |-> {"alloc"}, members |-> 3, cells |-> 4]

MCUses == {Writing, Copying, Nested, Appending}
=============================================================================
