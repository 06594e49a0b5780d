------------------------------- MODULE MCOrm -------------------------------
(* Orm on a database with two users, two namespaces, two plugins, a version  *)
(* and a refresh token, and on one without users and namespaces.             *)
EXTENDS Orm, TLC

CONSTANTS a, b, empty, old, then, now

MCWords == {a, b, empty}
MCTimes == {then, now}

\* Equality with what some rows have, and IsNil.
MCWordSets == {{a}}
MCTimeSets == {{then}}
MCIdSets == {{1}, {Null}}

Filled ==
  [Namespace |-> (1 :> [name |-> a, type |-> a, user_id |-> 1] @@
                  2 :> [name |-> old, type |-> a, user_id |-> Null]),
   Plugin |-> (1 :> [namespace_id |-> 1, name |-> a, description |-> empty,
                     namespace_plugins |-> 1] @@
               2 :> [namespace_id |-> 1, name |-> b, description |-> a,
                     namespace_plugins |-> Null]),
   PluginVersion |-> (1 :> [plugin_id |-> 1, version |-> a, oci_digest |-> a,
                            readme_html |-> empty]),
   RefreshToken |-> (1 :> [user_id |-> 1, token_hash |-> a, expires_at |-> then,
                           created_at |-> then]),
   User |-> (1 :> [email |-> a, password_hash |-> a, created_at |-> then,
                   updated_at |-> then] @@
             2 :> [email |-> old, password_hash |-> b, created_at |-> then,
                   updated_at |-> then])]

\* Two users, or two namespaces that take the plugins, can be added at once.
NoUsers ==
  [Filled EXCEPT !.Namespace = <<>>, !.RefreshToken = <<>>, !.User = <<>>,
                 !.Plugin[1].namespace_plugins = Null]

\* A long sequence of calls on one builder; a save that is tried again, in and
\* outside of a transaction; two builders, likewise; one write next to a query;
\* one deletion next to a query that is run twice.
LongBuild == [txs |-> 0, builders |-> 1, calls |-> 3, saves |-> 1, queries |-> 0]
SaveAgain == [txs |-> 1, builders |-> 1, calls |-> 2, saves |-> 2, queries |-> 0]
TwoBuilders == [txs |-> 1, builders |-> 2, calls |-> 1, saves |-> 2, queries |-> 0]
WriteAndRead == [txs |-> 0, builders |-> 1, calls |-> 1, saves |-> 1, queries |-> 1]
ReadAgain == [txs |-> 0, builders |-> 1, calls |-> 0, saves |-> 1, queries |-> 2]

MCStarts ==
  [tables : {Filled}, budget : {LongBuild, SaveAgain, TwoBuilders,
                                WriteAndRead, ReadAgain}]
    \cup [tables : {NoUsers}, budget : {LongBuild}]
=============================================================================
