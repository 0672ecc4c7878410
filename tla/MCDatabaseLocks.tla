--------------------------- MODULE MCDatabaseLocks ---------------------------
(***************************************************************************)
(* Three threads of one process, two of them for the same login, and a     *)
(* thread of another process for that login.                               *)
(***************************************************************************)
EXTENDS DatabaseLocks, TLC

HostOf  == "t1" :> "h1" @@ "t2" :> "h1" @@ "t3" :> "h2" @@ "t4" :> "h1"
LoginOf == "t1" :> "l1" @@ "t2" :> "l2" @@ "t3" :> "l1" @@ "t4" :> "l1"
=============================================================================
