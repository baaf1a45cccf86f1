------------------------------ MODULE MCPipeRun ------------------------------
(* Settings for TLC: at most one required variable unset, the credential      *)
(* combinations that select_strategy tells apart.                             *)
EXTENDS PipeRun

MCCreds == {{"keys"}, {"keys", "role_arn"}, {"keys", "oidc_token", "role_arn", "audience"},
            {"oidc_token", "role_arn", "audience"}, {"oidc_token", "role_arn"}, {"role_arn"}, {}}

MCSettings ==
  [action  : Actions,
   dry_run : BOOLEAN,
   unset   : {{}} \union {{v} : v \in EnvVars},
   creds   : MCCreds,
   chart   : {"local", "repo", "malformed"},
   oci     : {{}},
   timeout : BOOLEAN]
  \union
  [action  : Actions,
   dry_run : BOOLEAN,
   unset   : {{}},
   creds   : MCCreds,
   chart   : {"oci"},
   oci     : SUBSET {"login", "verify"},
   timeout : BOOLEAN]
=============================================================================
