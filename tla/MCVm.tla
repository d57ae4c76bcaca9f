-------------------------------- MODULE MCVm --------------------------------
(***************************************************************************)
(* An arena and a device in the kernel, and private memory in the process. *)
(* The archives have up to three entries; one of them has the mapped file  *)
(* as a member of a directory made by an earlier entry.                    *)
(***************************************************************************)
EXTENDS Vm

MCObjects == << vm_object_anon(0), vm_object_direct(1, 1), vm_object_anon(0) >>
MCKasSegs == (20 :> vm_segment_anonymous(2, {"R", "W"}, 1))
             @@ (24 :> vm_segment_direct(1, {"R"}, 2))
MCUserSegs == 0 :> vm_segment_anonymous(1, {"R", "W", "U"}, 3)

Tar(path, data) == [path |-> path, type |-> "file", data |-> data]
MCMapped == <<"libk", "tree">>
Small == { Tar(<<"libk", "list">>, <<"l">>), Tar(<<"libk", "sub", "f">>, <<>>),
           Tar(<<"main">>, <<"m", "n">>), Tar(<<"doc", "list">>, <<"d">>),
           [path |-> <<"libk">>, type |-> "directory", data |-> <<>>] }
MCArchives ==
  { << Tar(<<"libk", "list">>, <<"l">>), Tar(MCMapped, <<"f0", "f1", "f2">>) >> }
  \cup (Small \X Small \X Small)

\* What the proof of LookupSound asks of the archives
ASSUME MCFilesApart == \A a \in MCArchives : FilesApart(a)
=============================================================================
