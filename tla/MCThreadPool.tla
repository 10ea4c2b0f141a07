---------------------------- MODULE MCThreadPool ----------------------------
(* The programs of thread 0 that TLC runs over the thread pool.             *)
EXTENDS ThreadPool

(* Programs: a loop in a loop; a background loop that is waited for after   *)
(* other work; one loop more than the pool has groups.                      *)
MCPrograms ==
    {<<"nest">>, <<"background", "for", "wait", "for">>, <<"for", "for", "for">>}

(* Programs that use a pool of one group again and again. *)
MCForFor == {<<"for", "for">>}
=============================================================================
