---------------------------- MODULE MCFetchJobs -----------------------------
(***************************************************************************)
(* Values for the constants of FetchJobs: the requests in Second show the  *)
(* identity u2, those in Guests none, the others u1; those in Files are    *)
(* for a path that begins with /file/, those in Inner for one that has it  *)
(* further inside, the others for a page.                                  *)
(***************************************************************************)
EXTENDS FetchJobs, TLC

CONSTANTS u1, u2, Second, Guests, Files, Inner, Alike

MCUserOf == [r \in Request |-> IF r \in Second THEN u2
                               ELSE IF r \in Guests THEN Anon ELSE u1]
MCPathOf == [r \in Request \ Local |-> IF r \in Files THEN "/file/y"
                                       ELSE IF r \in Inner THEN "/x/file/y"
                                       ELSE "/page/x"]
MCFilePath == {"/file/y"}

(* Two requests that differ in nothing.                                    *)
Symmetry == Permutations(Alike)

=============================================================================
