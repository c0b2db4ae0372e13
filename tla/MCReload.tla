------------------------------- MODULE MCReload -------------------------------
(***************************************************************************)
(* Instances of Reload for TLC.                                            *)
(***************************************************************************)
EXTENDS Reload

CONSTANTS gpt, mini, opus, dear, cheap, custom, fallback, r1, r2

\* One name is a prefix of another.
DefaultTable == <<gpt>> :> dear @@ <<gpt, mini>> :> cheap

Asked == {<<gpt>>, <<gpt, mini>>, <<gpt, opus>>, <<gpt, mini, opus>>,
          <<opus, mini>>, <<mini>>}

NoKeys == <<>>

DefaultConfig == [per_session |-> 20, per_day |-> 200, warn_at |-> 80,
                  repeated_calls |-> 3, desktop |-> TRUE, pricing |-> NoKeys]

EnvSettings == [per_day |-> 9]

Of(keys) == [ok |-> TRUE, keys |-> keys]

Empty == Of(NoKeys)

\* Prices for a name of its own, as long as a default one; a price that replaces a
\* default; no prices; a limit that is not valid; a file that cannot be parsed.
Documents ==
    { Empty,
      Of([per_session |-> 4, per_day |-> 1, warn_at |-> 0,
          pricing |-> (<<opus>> :> custom)]),
      Of([desktop |-> FALSE, repeated_calls |-> 5, pricing |-> (<<gpt>> :> custom)]),
      Of([per_session |-> -1]),
      [ok |-> FALSE, keys |-> NoKeys] }
=============================================================================
