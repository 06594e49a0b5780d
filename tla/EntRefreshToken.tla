-------------------------- MODULE EntRefreshToken --------------------------
(* The RefreshToken entity of the ORM client: internal/ent/refreshtoken*.go  *)
(* and its parts of mutation.go and client.go.                               *)
EXTENDS Ent

\* RefreshTokenMutation: SetUserID, SetTokenHash, SetExpiresAt, SetCreatedAt
\* and their Resets.
RefreshTokenFieldCall ==
  \/ FieldCall("user_id", Ids)
  \/ FieldCall("token_hash", Words)
  \/ \E f \in {"expires_at", "created_at"} : FieldCall(f, Times)
  \/ \E i \in Ids : SetID(i)

\* ClearUser, ResetUser.
RefreshTokenEdgeCall == OwnerCall("user_id")

\* The methods that take the name of a field or an edge end in these.
RefreshTokenCall ==
  Calling("RefreshToken") /\ (RefreshTokenFieldCall \/ RefreshTokenEdgeCall)

RefreshTokenDefaults(m) == [m EXCEPT !.set["created_at"] = Or(@, Now)]

RefreshTokenUpdateDefaults(m) == m

RefreshTokenRequired(m) ==
  /\ Given(m, {"user_id", "token_hash", "expires_at", "created_at"})
  /\ NotEmpty(m, {"token_hash"})

RefreshTokenRow(m) ==
  [user_id |-> m.set["user_id"], token_hash |-> m.set["token_hash"],
   expires_at |-> m.set["expires_at"], created_at |-> m.set["created_at"]]

RefreshTokenNew ==
  LET ms == [i \in DOMAIN builder.mutations |-> RefreshTokenDefaults(builder.mutations[i])]
  IN SaveNew("RefreshToken", ms, \A i \in DOMAIN ms : RefreshTokenRequired(ms[i]),
             [i \in DOMAIN ms |-> RefreshTokenRow(ms[i])])

RefreshTokenCreate == Saving({"Create"}, "RefreshToken") /\ RefreshTokenNew

RefreshTokenCreateBulk == Saving({"CreateBulk"}, "RefreshToken") /\ RefreshTokenNew

\* A token cannot be told to leave its user and to have one.
RefreshTokenCheck(m) == NotEmpty(m, {"token_hash"}) /\ ~ClearsAndSets(m, "user_id")

\* sqlSave leaves created_at alone.
RefreshTokenAfter(m, row) ==
  [user_id |-> OwnerAfter(m, "user_id", m.uncoupled, row.user_id),
   token_hash |-> Or(m.set["token_hash"], row.token_hash),
   expires_at |-> Or(m.set["expires_at"], row.expires_at),
   created_at |-> row.created_at]

RefreshTokenChange ==
  LET m == RefreshTokenUpdateDefaults(M) IN
  SaveChanged("RefreshToken", m, RefreshTokenCheck(m),
    [id \in DOMAIN Target["RefreshToken"] |-> RefreshTokenAfter(m, Target["RefreshToken"][id])])

RefreshTokenUpdate == Saving({"Update"}, "RefreshToken") /\ RefreshTokenChange

RefreshTokenUpdateOne == Saving({"UpdateOne"}, "RefreshToken") /\ RefreshTokenChange

RefreshTokenDelete == SaveDelete("RefreshToken")

-----------------------------------------------------------------------------
RefreshTokenPredicates ==
  {Everything} \cup Compared({"user_id"}, IdSets) \cup Compared({"token_hash"}, WordSets)
    \cup Compared({"expires_at", "created_at"}, TimeSets)

RefreshTokenEdgePredicates == HasOwner("user_id")

RefreshTokenClient ==
  OpenAny("RefreshToken", RefreshTokenPredicates \cup RefreshTokenEdgePredicates)

\* WithUser and Select.
RefreshTokenQuery ==
  \E fields \in {AllColumns, {"token_hash"}}, with \in {<<>>, <<"user_id">>} :
    OpenQuery("RefreshToken", Everything, fields, with, AllColumns)

\* querySpec: the foreign key is read too when WithUser needs it.
RefreshTokenColumnsRead ==
  IF reader.with # <<>> THEN WithColumn(reader.fields, "user_id") ELSE reader.fields

RefreshTokenAll == QueryNodes("RefreshToken", RefreshTokenColumnsRead)

RefreshTokenLoadUser == LoadOwner("RefreshToken", "user_id", "User")

RefreshTokenWrites ==
  \/ RefreshTokenClient \/ RefreshTokenCall \/ AnotherBuilder("RefreshToken")
  \/ RefreshTokenCreate \/ RefreshTokenCreateBulk
  \/ RefreshTokenUpdate \/ RefreshTokenUpdateOne \/ RefreshTokenDelete

RefreshTokenReads ==
  RefreshTokenQuery \/ RefreshTokenAll \/ RefreshTokenLoadUser
=============================================================================
