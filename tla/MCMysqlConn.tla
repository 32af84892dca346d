---------------------------- MODULE MCMysqlConn -----------------------------
(* Small instances of MysqlConn: the sets of calls each configuration issues. *)
EXTENDS MysqlConn, TLC

ChatCalls == {"insert_room", "insert_members", "insert_chat", "chat_list", "get_members"}
RecordCalls == {"insert_user", "insert_room", "insert_chat", "delete_all",
                "insert_react", "update_react"}
Symmetry == Permutations(Threads) \cup Permutations(Users)
=============================================================================
