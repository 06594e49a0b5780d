------------------------------ MODULE EntUser ------------------------------
(* The User entity of the ORM client: internal/ent/user*.go and its parts of *)
(* mutation.go and client.go.                                                *)
EXTENDS Ent

\* UserMutation: SetEmail, SetPasswordHash, SetCreatedAt, SetUpdatedAt and
\* their Resets.
UserFieldCall ==
  \/ \E f \in {"email", "password_hash"} : FieldCall(f, Words)
  \/ \E f \in {"created_at", "updated_at"} : FieldCall(f, Times)
  \/ \E i \in Ids : SetID(i)

\* Add, Remove, Clear and Reset of the refresh tokens and the namespaces.
UserEdgeCall == ChildrenCall("refresh_tokens") \/ ChildrenCall("namespaces")

\* The methods that take the name of a field or an edge end in these.
UserCall == Calling("User") /\ (UserFieldCall \/ UserEdgeCall)

UserDefaults(m) ==
  [m EXCEPT !.set["created_at"] = Or(@, Now), !.set["updated_at"] = Or(@, Now)]

UserRequired(m) ==
  /\ Given(m, {"email", "password_hash", "created_at", "updated_at"})
  /\ NotEmpty(m, {"email", "password_hash"})

UserRow(m) ==
  [email |-> m.set["email"], password_hash |-> m.set["password_hash"],
   created_at |-> m.set["created_at"], updated_at |-> m.set["updated_at"]]

UserNew ==
  LET ms == [i \in DOMAIN builder.mutations |-> UserDefaults(builder.mutations[i])]
  IN SaveNew("User", ms, \A i \in DOMAIN ms : UserRequired(ms[i]),
             [i \in DOMAIN ms |-> UserRow(ms[i])])

UserCreate == Saving({"Create"}, "User") /\ UserNew

UserCreateBulk == Saving({"CreateBulk"}, "User") /\ UserNew

\* UpdateDefault: an update without a time of its own is an update now.
UserUpdateDefaults(m) == [m EXCEPT !.set["updated_at"] = Or(@, Now)]

UserCheck(m) == NotEmpty(m, {"email", "password_hash"})

\* sqlSave leaves created_at alone.
UserAfter(m, row) ==
  [email |-> Or(m.set["email"], row.email),
   password_hash |-> Or(m.set["password_hash"], row.password_hash),
   created_at |-> row.created_at,
   updated_at |-> Or(m.set["updated_at"], row.updated_at)]

UserChange ==
  LET m == UserUpdateDefaults(M) IN
  SaveChanged("User", m, UserCheck(m),
    [id \in DOMAIN Target["User"] |-> UserAfter(m, Target["User"][id])])

UserUpdate == Saving({"Update"}, "User") /\ UserChange

UserUpdateOne == Saving({"UpdateOne"}, "User") /\ UserChange

UserDelete == SaveDelete("User")

-----------------------------------------------------------------------------
UserPredicates ==
  {Everything} \cup Compared({"email", "password_hash"}, WordSets)
    \cup Compared({"created_at", "updated_at"}, TimeSets)

UserEdgePredicates ==
  Has({"refresh_tokens", "namespaces"}, {Everything})

UserClient == OpenAny("User", UserPredicates \cup UserEdgePredicates)

\* WithRefreshTokens, WithNamespaces and Select.
UserQuery ==
  \E where \in UserEdgePredicates \cup {Everything},
    selected \in {<<AllColumns, AllColumns>>, <<{"email"}, {"type"}>>},
    with \in {<<"refresh_tokens">>, <<"namespaces">>,
              <<"refresh_tokens", "namespaces">>} :
      OpenQuery("User", where, selected[1], with, selected[2])

UserAll == QueryNodes("User", reader.fields)

UserLoadRefreshTokens ==
  LoadChildren("refresh_tokens", WithColumn(reader.childFields, "user_id"))

UserLoadNamespaces ==
  LoadChildren("namespaces", WithColumn(reader.childFields, "user_id"))

UserWrites ==
  \/ UserClient \/ UserCall \/ AnotherBuilder("User")
  \/ UserCreate \/ UserCreateBulk
  \/ UserUpdate \/ UserUpdateOne \/ UserDelete

UserReads ==
  UserQuery \/ UserAll \/ UserLoadRefreshTokens \/ UserLoadNamespaces
=============================================================================
