--------------------------- MODULE MC_FsSyscalls ---------------------------
(***************************************************************************)
(* Path arguments and open flags for the FsSyscalls runs.  A path is a     *)
(* sequence of characters: one-letter names and "/".                        *)
(***************************************************************************)
EXTENDS FsSyscalls

Root == <<"/">>
PF   == <<"/", "f">>
PD   == <<"/", "d">>
PA   == <<"/", "a">>
PB   == <<"/", "b">>
PDF  == <<"/", "d", "/", "f">>
PDD  == <<"/", "d", "/", "d">>
PAF  == <<"/", "a", "/", "f">>
PAD  == <<"/", "a", "/", "d">>

(* Every access mode, alone, with O_TRUNC and with O_CREATE.               *)
AccessModes == {om \cup x : om \in {{}, {"WRONLY"}, {"RDWR"}, {"NOACCESS"}},
                             x \in {{}, {"TRUNC"}, {"CREATE"}}}

\* fs_permissions: opens and chmods of /f, a directory and a link to /f.
PermPaths   == {PF, PD, PA}
PermLinks   == {<<PF, PA>>}

\* fs_tree: a two-level tree built by mkdir and O_CREATE, a link to /d,
\* and the relative paths d, f and a/f that chdir moves the start of.
RD   == <<"d">>
RF   == <<"f">>
RAF  == <<"a", "/", "f">>
TreePaths   == {Root, PD, PDD, PDF, PAF, RD, RF, RAF}
TreeLinks   == {<<PD, PA>>}
TreeModes   == {{"CREATE", "RDWR"}}

\* violations: O_RDONLY with O_TRUNC; O_CREATE on an existing file;
\* O_NOACCESS with O_TRUNC.
RdTruncModes  == {{"TRUNC"}}
CreateModes   == {{"CREATE"}}
NoAccTrunc    == {{"NOACCESS", "TRUNC"}}
FPaths        == {PF}
FLinks        == {<<PF, PF>>}

\* violations with links: /a -> /b -> /d (a chain), /a -> /a/a (a cycle
\* that keeps its remaining path), /a -> /d without /d (dangling).
ChainPaths   == {PD, PDF, PA, PAF}
ChainLinks   == {<<PB, PA>>, <<PD, PB>>}
CyclePaths   == {PAF}
CycleLinks   == {<<<<"/", "a", "/", "a">>, PA>>}
DanglePaths  == {PA}
DangleLinks  == {<<PD, PA>>}

=============================================================================
