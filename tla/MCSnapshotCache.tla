--------------------------- MODULE MCSnapshotCache ----------------------------
(* SnapshotCache for TLC.  Sessions and versions are model values, none unlike *)
(* another.  Two states are the same if they differ only in which inode is     *)
(* which, in the bytes of an inode nobody holds (OpenPart empties it before it *)
(* is used again), or in what neither a step nor a property will look at.      *)
EXTENDS SnapshotCache, TLC

Interchangeable == Permutations(Sessions) \cup Permutations(Versions)

\* The files in use, each known by the names and the sessions that hold it.
Files ==
    {[holders |-> {n \in Names : dir[n] = i} \cup {s \in Sessions : session[s].fd = i},
      bytes   |-> data[i]] : i \in InodesInUse}

\* How a session has ended; its download once the result is there; and wentBack of a
\* session that was not always alone.
Essence(here) ==
    CASE here.pc \in Ends     -> Rest("idle")
      [] here.pc = "publish"  -> [Rest("publish") EXCEPT !.result = here.result,
                                    !.served = here.served, !.alone = here.alone]
      [] OTHER -> [here EXCEPT !.fd = None, !.wentBack = @ /\ here.alone]

Essentials ==
    <<upstream, Files, metadata, staged, budget, [s \in Sessions |-> Essence(session[s])]>>
=============================================================================
