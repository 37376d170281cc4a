------------------------------ MODULE MCToolCalls ------------------------------
(* Values of path arguments for TLC. *)
EXTENDS ToolCalls

\* An ordinary id, the tokens that climb, names that are segments of other routes, texts
\* that would fall into several segments, and names of repositories with slashes, two of
\* them like a tag and a manifest of another.
SomeTexts ==
  {<<"42">>, <<Empty>>, <<".">>, <<"..">>, <<"?">>, <<"library">>, <<"preflight">>, <<"keys">>,
   <<"transfers">>, <<"rotate">>, <<"..", "account">>, <<"42", "api-access", "?">>,
   <<"42", "renew", "?">>, <<"42", "kubeconfig", "?">>, <<"team", "app">>,
   <<"tags">>, <<"vulnerabilities">>, <<"app", "tags", "v1">>, <<"app", "manifests", "v1">>}
===============================================================================
