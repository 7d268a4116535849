------------------------ MODULE AuthorizationHandler ------------------------
(***************************************************************************)
(* Authorization.new_post / new_get (acme/authorization.py) and            *)
(* Challenge.parse, challengeset_get and _validate (acme/challenge.py):    *)
(* a client fetches an authorization, which creates its challenges or      *)
(* validates the ones it has, or asks for one challenge to be validated.   *)
(***************************************************************************)
EXTENDS Workers

\* Only a configured server can answer that there is no such name; without one
\* the query fails, which is no reason to stop.
fqdn_resolve(configured) == IF configured THEN {"other", "invalid"} ELSE {"other"}

\* What checking a challenge may come to.  "fail" leaves challenge and
\* authorization as they are, "invalid" makes both invalid.
validate(resolved) ==
    UNION {IF answer = "invalid" THEN {"invalid"} ELSE {"ok", "fail"} :
               answer \in resolved}

validate_http_challenge == validate(fqdn_resolve(TRUE))

validate_dns_challenge == validate(fqdn_resolve(FALSE))

validate_tkauth_challenge == {"ok"}

\* _check; for any type it fails without the key of the account.
Outcomes(type) ==
    {"fail"} \cup CASE type = "http-01" -> validate_http_challenge
                   [] type = "dns-01" -> validate_dns_challenge
                   [] type = "tkauth-01" -> validate_tkauth_challenge

-----------------------------------------------------------------------------
(* Authorization                                                           *)

\* new_post begins with invalidate(): the search for expired rows (if it fails,
\* the request dies before it changed anything) ...
AuthzPost(w, a) ==
    /\ pc[w] = "idle"
    /\ Goto(w, "invalidateAuthzs",
            [Idle EXCEPT !.az = a, !.dueAuthzs = authorizations_expired_search])
    /\ UNCHANGED <<dbvars, announced, passed, crashes>>

\* ... and one update for each row found, whatever its status is by then.
InvalidateAuthz(w) ==
    /\ pc[w] = "invalidateAuthzs"
    /\ \E a \in loc[w].dueAuthzs :
          /\ authorization_update(w, a, "expired")
          /\ Goto(w, "invalidateAuthzs", [loc[w] EXCEPT !.dueAuthzs = @ \ {a}])
    /\ UNCHANGED <<orders, chall, certs, announced, passed, crashes>>

\* Message.check accepts the request or refuses it.
AuthzPostChecked(w) ==
    /\ pc[w] = "invalidateAuthzs"
    /\ loc[w].dueAuthzs = {}
    /\ \/ Goto(w, "lookupAuthz", loc[w])
       \/ Done(w)
    /\ UNCHANGED <<dbvars, announced, passed, crashes>>

\* new_get goes to _authz_info at once.
AuthzGet(w, a) ==
    /\ pc[w] = "idle"
    /\ Goto(w, "lookupAuthz", [Idle EXCEPT !.az = a])
    /\ UNCHANGED <<dbvars, announced, passed, crashes>>

\* A client knows the authorizations of the orders announced to it; for any
\* other name, and for a row that does not exist, the lookup finds nothing.
LookupAuthz(w) ==
    /\ pc[w] = "lookupAuthz"
    /\ LET a == loc[w].az
       IN  \/ /\ a[1] \in announced
              /\ authz[a].status # None
              /\ Goto(w, "refreshAuthz", loc[w])
           \/ /\ DBMayFail \/ a[1] \notin announced \/ authz[a].status = None
              /\ Done(w)
    /\ UNCHANGED <<dbvars, announced, passed, crashes>>

\* "update authorization with expiry date and token (just to be sure)"
RefreshAuthz(w) ==
    /\ pc[w] = "refreshAuthz"
    /\ authorization_refresh(w, loc[w].az)
    /\ Goto(w, "readStatus", loc[w])
    /\ UNCHANGED <<orders, chall, certs, announced, passed, crashes>>

\* The status that decides on validation is read here; a failing lookup
\* leaves authz_info_dic without it and the request dies with a KeyError.
ReadAuthzStatus(w) ==
    /\ pc[w] = "readStatus"
    /\ \/ Goto(w, "searchChallenges",
               [loc[w] EXCEPT !.seen = authz[loc[w].az].status])
       \/ DBMayFail /\ Done(w)
    /\ UNCHANGED <<dbvars, announced, passed, crashes>>

\* Slip: a pending authorization always gets a new set of challenges.
SearchChallenges_anew(w) ==
    /\ pc[w] = "searchChallenges"
    /\ IF loc[w].seen = "pending"
       THEN Goto(w, "newChallenge",
                 [loc[w] EXCEPT !.types = challenge_types(loc[w].az)])
       ELSE Done(w)
    /\ UNCHANGED <<dbvars, announced, passed, crashes>>

\* Slip: a poll validates only the challenges that are still pending.
SearchChallenges_pending(w) ==
    /\ pc[w] = "searchChallenges"
    /\ LET found == challenges_search(loc[w].az)
       IN  IF found = {}
           THEN Goto(w, "newChallenge",
                     [loc[w] EXCEPT !.types = challenge_types(loc[w].az)])
           ELSE Goto(w, "check", [loc[w] EXCEPT
                        !.challs = {c \in found : chall[c] = "pending"}])
    /\ UNCHANGED <<dbvars, announced, passed, crashes>>

\* challengeset_get: no challenge yet means a new set; otherwise the last of
\* each type is validated when the authorization was read as pending.  The
\* query runs when its rows are iterated, outside the try: if it fails, the
\* request dies.
SearchChallenges(w) ==
    /\ pc[w] = "searchChallenges"
    /\ LET found == challenges_search(loc[w].az)
           types == {c[3] : c \in found}
       IN  \/ /\ found = {}
              /\ Goto(w, "newChallenge",
                      [loc[w] EXCEPT !.types = challenge_types(loc[w].az)])
           \/ /\ found # {}
              /\ loc[w].seen = "pending"
              /\ \E last \in [types -> found] :
                    /\ \A t \in types : last[t][3] = t
                    /\ Goto(w, "check", [loc[w] EXCEPT
                               !.challs = {last[t] : t \in types}])
           \/ /\ found # {}
              /\ loc[w].seen # "pending"
              /\ Done(w)
           \/ DBMayFail /\ Done(w)
    /\ UNCHANGED <<dbvars, announced, passed, crashes>>

\* new_set: one challenge of each type, each added by a call of its own.
NewChallenge(w) ==
    /\ pc[w] = "newChallenge"
    /\ \E t \in loc[w].types :
          /\ challenge_add(w, loc[w].az, t)
          /\ IF loc[w].types = {t}
             THEN Done(w)
             ELSE Goto(w, "newChallenge", [loc[w] EXCEPT !.types = @ \ {t}])
    /\ UNCHANGED <<orders, authz, certs, announced, passed, crashes>>

-----------------------------------------------------------------------------
(* Challenge                                                               *)

\* Slip: a challenge that is valid already is validated again.
ChallengePost_again(w, c) ==
    /\ pc[w] = "idle"
    /\ c[1] \in announced
    /\ chall[c] # None
    /\ Goto(w, "check", [Idle EXCEPT !.challs = {c}])
    /\ UNCHANGED <<dbvars, announced, passed, crashes>>

\* parse: a challenge that is read as valid is only shown.
ChallengePost(w, c) ==
    /\ pc[w] = "idle"
    /\ c[1] \in announced
    /\ chall[c] \notin {None, "valid"}
    /\ Goto(w, "check", [Idle EXCEPT !.challs = {c}])
    /\ UNCHANGED <<dbvars, announced, passed, crashes>>

\* Slip: the result of the check is not looked at.
CheckChallenge_blind(w, c, outcome) ==
    /\ pc[w] = "check"
    /\ c \in loc[w].challs
    /\ outcome \in Outcomes(c[3])
    /\ Goto(w, "challValid", [loc[w] EXCEPT !.challs = @ \ {c}, !.ch = c])
    /\ passed' = IF outcome = "ok" THEN passed \cup {c} ELSE passed
    /\ UNCHANGED <<dbvars, announced, crashes>>

\* _validate asks the network; a request that validates several challenges
\* goes from one to the next, whatever came of the first.
CheckChallenge(w, c, outcome) ==
    /\ pc[w] = "check"
    /\ c \in loc[w].challs
    /\ outcome \in Outcomes(c[3])
    /\ LET rest == loc[w].challs \ {c}
       IN  \/ /\ outcome = "ok"
              /\ Goto(w, "challValid", [loc[w] EXCEPT !.challs = rest, !.ch = c])
              /\ passed' = passed \cup {c}
           \/ /\ outcome = "invalid"
              /\ Goto(w, "challInvalid", [loc[w] EXCEPT !.challs = rest, !.ch = c])
              /\ UNCHANGED passed
           \/ /\ outcome = "fail"
              /\ Goto(w, "check", [loc[w] EXCEPT !.challs = rest, !.ch = c])
              /\ UNCHANGED passed
    /\ UNCHANGED <<dbvars, announced, crashes>>

\* A request for one challenge may bring a keyAuthorization to be stored; a
\* poll of the authorization validates its challenges without a payload.
ChallengesChecked(w) ==
    /\ pc[w] = "check"
    /\ loc[w].challs = {}
    /\ \/ UNCHANGED <<chall, held>>
       \/ /\ loc[w].az = None
          /\ loc[w].ch # None
          /\ challenge_keyauthorization(w, loc[w].ch)
    /\ Done(w)
    /\ UNCHANGED <<orders, authz, certs, announced, passed, crashes>>

\* The outcome is written twice: to the challenge, then to its authorization.
UpdateChallenge(w) ==
    /\ \/ /\ pc[w] = "challValid"
          /\ challenge_update(w, loc[w].ch, "valid")
          /\ Goto(w, "authzValid", loc[w])
       \/ /\ pc[w] = "challInvalid"
          /\ challenge_update(w, loc[w].ch, "invalid")
          /\ Goto(w, "authzInvalid", loc[w])
    /\ UNCHANGED <<orders, authz, certs, announced, passed, crashes>>

\* Slip: an invalid challenge is not passed on to its authorization.
UpdateAuthz_valid(w) ==
    /\ \/ pc[w] = "authzValid" /\ authorization_update(w, AuthzOf(loc[w].ch), "valid")
       \/ pc[w] = "authzInvalid" /\ UNCHANGED <<authz, held>>
    /\ Goto(w, "check", loc[w])
    /\ UNCHANGED <<orders, chall, certs, announced, passed, crashes>>

UpdateAuthz(w) ==
    /\ \/ pc[w] = "authzValid" /\ authorization_update(w, AuthzOf(loc[w].ch), "valid")
       \/ pc[w] = "authzInvalid" /\ authorization_update(w, AuthzOf(loc[w].ch), "invalid")
    /\ Goto(w, "check", loc[w])
    /\ UNCHANGED <<orders, chall, certs, announced, passed, crashes>>

-----------------------------------------------------------------------------
\* The next call of a request that is being handled.
AuthorizationStep(w) ==
    \/ InvalidateAuthz(w)
    \/ AuthzPostChecked(w)
    \/ LookupAuthz(w)
    \/ RefreshAuthz(w)
    \/ ReadAuthzStatus(w)
    \/ SearchChallenges(w)
    \/ NewChallenge(w)
    \/ \E c \in Challenges, outcome \in {"ok", "fail", "invalid"} :
          CheckChallenge(w, c, outcome)
    \/ ChallengesChecked(w)
    \/ UpdateChallenge(w)
    \/ UpdateAuthz(w)
=============================================================================
