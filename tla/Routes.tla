------------------------------- MODULE Routes -------------------------------
(***************************************************************************)
(* The handler table of src/Server: for each SQL file, how its functions   *)
(* treat their connection; for each router, which SQL functions an endpoint*)
(* chains and how the chain ends.  A data-dependent choice in a handler    *)
(* becomes a set of alternatives.  module Server gives the table its       *)
(* meaning.                                                                *)
(*                                                                         *)
(* routes/image.js is absent: it uses multer without requiring it, exports *)
(* no router, and is mounted nowhere.                                      *)
(***************************************************************************)
EXTENDS Sequences

\* A file's functions all have one shape, but for the exceptions given.
File(names, shape) == [f \in names |-> shape]

user_sql == File({"get_user_list", "update_option", "update_option_city", "get_option",
                  "get_option_city", "update_upprofile", "decrease_candy", "increase_candy",
                  "get_blocking_user", "get_my_blocking_user"}, "plain")

expression_sql ==
  File({"get_count_expression", "get_count_each", "get_count_view", "get_send_user",
        "get_receive_user", "get_each1_user", "get_each2_user", "get_visit_user",
        "insert_visit_data", "update_visit_data", "check_visit_data", "get_expression_data",
        "insert_expression_data", "delete_expression_data", "insert_expressioneach_data",
        "delete_expressioneach_data", "check_expression_data"}, "plain")

register_sql ==
  File({"register_product", "get_register", "get_register_byid", "get_image", "insert_image",
        "remove_image", "get_register_recent", "get_register_popular", "get_register_search",
        "increase_register_like", "decrease_register_like", "get_subcategory",
        "update_product", "increase_register_view"}, "plain")

chat_room_sql ==
  [create_room |-> "guarded", get_room_info |-> "guarded", get_my_room |-> "guarded",
   check_chat_room |-> "leaky"]

follow_sql == File({"check_follow", "insert_follow", "delete_follow", "get_product",
                    "get_count_follower", "get_count_following"}, "plain")

view_sql == File({"insert_view", "update_view", "check_view", "get_view"}, "plain")

wishlist_sql == File({"insert_wishlist", "delete_wishlist", "check_wishlist", "get_wishlist"},
                     "plain")

payment_sql == File({"insert_payment", "search_payment"}, "plain")

inquire_sql == File({"send_inquire", "get_inquire"}, "early")

point_sql == [get_point |-> "early", search_point |-> "plain"]

usertypechange_sql == [get_usertype |-> "early"]
-----------------------------------------------------------------------------
Ending(calls, end) == [calls |-> calls, end |-> end]

\* One branch that ends so; one branch that answers; no branch at all.
Chain(calls, end) == [paths |-> <<Ending(calls, end)>>, sync |-> "none"]
Answers(calls) == Chain(calls, "reply")
AtOnce(sync) == [paths |-> <<>>, sync |-> sync]

\* login calls db_user.login, which user_sql does not define; get/option and
\* get/option/city index the first row of a result that may be empty;
\* save/showprofile reads its parameters and returns.
user == LET sql == user_sql IN
  [login               |-> {AtOnce("throw")},
   get_list            |-> {Answers(<<sql.get_user_list, expression_sql.get_expression_data>>)},
   update_option       |-> {Answers(<<sql.update_option>>)},
   update_option_city  |-> {Answers(<<sql.update_option_city>>)},
   get_option          |-> {Chain(<<sql.get_option, sql.get_option_city>>, e) : e \in {"reply", "throw"}},
   upprofile           |-> {Answers(<<sql.update_upprofile>>)},
   get_blocking        |-> {Answers(<<sql.get_blocking_user>>)},
   get_my_blocking     |-> {Answers(<<sql.get_my_blocking_user>>)},
   save_showprofile    |-> {AtOnce("none")}]

\* get/count sends the misspelt obejct; insert/history, insert and delete
\* choose by a count and do nothing when it is neither 0 nor 1; insert with
\* count 0 passes one argument too few, so that its callback is undefined.
expression == LET sql == expression_sql IN
  [save_showprofile |-> {Answers(<<sql.insert_expression_data, user_sql.decrease_candy>>)},
   get_count        |-> {Chain(<<sql.get_count_expression, sql.get_count_each>>, "throw")},
   get_send_user    |-> {Answers(<<sql.get_send_user, sql.get_expression_data>>)},
   get_receive_user |-> {Answers(<<sql.get_receive_user, sql.get_expression_data>>)},
   get_each1_user   |-> {Answers(<<sql.get_each1_user, sql.get_expression_data>>)},
   get_each2_user   |-> {Answers(<<sql.get_each2_user, sql.get_expression_data>>)},
   get_count_view   |-> {Answers(<<sql.get_count_view>>)},
   get_visit_user   |-> {Answers(<<sql.get_visit_user, sql.get_expression_data>>)},
   insert_history   |-> {Answers(<<sql.check_visit_data, sql.update_visit_data>>),
                         Answers(<<sql.check_visit_data, sql.insert_visit_data>>),
                         Chain(<<sql.check_visit_data>>, "silent")},
   insert           |-> {Answers(<<sql.check_expression_data, sql.insert_expression_data,
                                   sql.insert_expressioneach_data>>),
                         Chain(<<sql.check_expression_data, sql.insert_expression_data>>, "nocallback"),
                         Chain(<<sql.check_expression_data>>, "silent")},
   delete           |-> {Answers(<<sql.check_expression_data, sql.delete_expressioneach_data,
                                   sql.delete_expression_data>>),
                         Answers(<<sql.check_expression_data, sql.delete_expression_data>>),
                         Chain(<<sql.check_expression_data>>, "silent")}]

\* insert and insert/image start two queries at once; decrease/like calls the
\* increase; update leaves out the register id, so that its callback is
\* undefined; update/nickname names an undefined variable.
register == LET sql == register_sql IN
  [get             |-> {AtOnce("reply")},
   get_byid        |-> {Answers(<<sql.get_register_byid>>)},
   insert          |-> {[paths |-> <<Ending(<<sql.register_product>>, "silent"),
                                     Ending(<<sql.get_register>>, "reply")>>, sync |-> "none"]},
   image           |-> {Answers(<<sql.get_image>>)},
   insert_image    |-> {[paths |-> <<Ending(<<sql.remove_image>>, "silent"),
                                     Ending(<<sql.insert_image>>, "reply")>>, sync |-> "none"]},
   recent          |-> {Answers(<<sql.get_register_recent>>)},
   popular         |-> {Answers(<<sql.get_register_popular>>)},
   search          |-> {Answers(<<sql.get_register_search>>)},
   increase_like   |-> {Answers(<<sql.increase_register_like>>)},
   decrease_like   |-> {Answers(<<sql.increase_register_like>>)},
   subcategory     |-> {Answers(<<sql.get_subcategory>>)},
   update          |-> {Chain(<<sql.update_product>>, "nocallback")},
   update_nickname |-> {AtOnce("throw")},
   increase_view   |-> {Answers(<<sql.increase_register_view>>)}]

\* '/' starts two queries and then throws, db_user being undefined: the error
\* handler answers.  get_room_info's callback sends the first row all the same;
\* without one it sends undefined, which leaves a finished response alone.
chat_room == LET sql == chat_room_sql IN
  [create  |-> {[paths |-> <<Ending(<<sql.create_room>>, "silent"),
                             Ending(<<sql.get_room_info>>, e)>>, sync |-> "throw"]
                  : e \in {"reply", "silent"}},
   my_room |-> {Answers(<<sql.get_my_room>>)},
   check   |-> {Answers(<<sql.check_chat_room>>)}]

\* check, insert and delete name undefined variables; get/product passes three
\* arguments to a function of two, whose callback is then no function.
follow == LET sql == follow_sql IN
  [check               |-> {AtOnce("throw")},
   insert              |-> {AtOnce("throw")},
   delete              |-> {AtOnce("throw")},
   get_product         |-> {Chain(<<sql.get_product>>, "throw")},
   get_count_follower  |-> {Answers(<<sql.get_count_follower>>)},
   get_count_following |-> {Answers(<<sql.get_count_following>>)}]

view == LET sql == view_sql IN
  [insert |-> {Answers(<<sql.insert_view>>)}, update |-> {Answers(<<sql.update_view>>)},
   check  |-> {Answers(<<sql.check_view>>)},  get    |-> {Answers(<<sql.get_view>>)}]

\* db_register is undefined here: insert finds out in a callback, delete at once.
wishlist == LET sql == wishlist_sql IN
  [insert |-> {Chain(<<sql.insert_wishlist>>, "throw")}, delete |-> {AtOnce("throw")},
   check  |-> {Answers(<<sql.check_wishlist>>)}]

\* Mutant: '/' answers at once and again when its insert is done.
paymentTwice == LET sql == payment_sql IN
  [pay    |-> {[paths |-> <<Ending(<<sql.insert_payment>>, "reply")>>, sync |-> "reply"]},
   search |-> {Answers(<<sql.search_payment>>)}]

\* '/' answers before its insert has run.
payment == LET sql == payment_sql IN
  [pay    |-> {[paths |-> <<Ending(<<sql.insert_payment>>, "silent")>>, sync |-> "reply"]},
   search |-> {Answers(<<sql.search_payment>>)}]

inquire == LET sql == inquire_sql IN
  [send |-> {Answers(<<sql.send_inquire>>)}, get |-> {Answers(<<sql.get_inquire>>)}]

point == LET sql == point_sql IN
  [get |-> {Answers(<<sql.get_point>>)}, search |-> {Answers(<<sql.search_point>>)}]

usertypechange == [get |-> {Answers(<<usertypechange_sql.get_usertype>>)}]

Of(router) == UNION {router[e] : e \in DOMAIN router}

\* What the routers that app.js mounts may do, and the two it does not mount
\* although the clients call them.
Mounted == UNION {Of(user), Of(register), Of(chat_room), Of(wishlist), Of(payment), Of(view),
                  Of(follow), Of(point), Of(usertypechange)}
Unmounted == Of(expression) \cup Of(inquire)
=============================================================================
