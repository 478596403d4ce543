----------------------------- MODULE HttpRouter -----------------------------
(***************************************************************************)
(* Which rule of Crow's router a request gets: the tries of rules, one for *)
(* every method, how they are built and compressed and how a URL is looked *)
(* up.  The rules are those of the program: the three of the static web    *)
(* server, and the WebSocket of a proxy.                                   *)
(*                                                                         *)
(* A node of a trie is a record; a parameter of a rule, which takes a part *)
(* of the URL, is the symbol "<path>" or "<string>" in the rule.  Rules    *)
(* with numbers and blueprints, which the program has none of, are left    *)
(* out.                                                                    *)
(***************************************************************************)
EXTENDS HttpMessage, FiniteSets, SequencesExt

Params == {"<path>", "<string>"}
NoParam == "none"

Node(key, param) ==
  [rule |-> 0, key |-> key, param |-> param, children |-> <<>>]

(* The child of a node that a symbol of a rule leads to; 0 if there is     *)
(* none yet.                                                               *)
ChildFor(node, c) ==
  LET leads(i) == LET child == node.children[i] IN
        IF c \in Params THEN child.param = c
        ELSE child.param = NoParam /\ child.key[1] = c
  IN  IF \E i \in DOMAIN node.children : leads(i)
      THEN CHOOSE i \in DOMAIN node.children : leads(i)
      ELSE 0

(* Trie::add: node with the rest of a rule's URL below it.                 *)
RECURSIVE add(_, _, _)
add(node, url, rule) ==
  IF url = <<>> THEN [node EXCEPT !.rule = rule]
  ELSE LET c == Head(url)
           i == ChildFor(node, c)
           new == IF c \in Params THEN Node(<<>>, c) ELSE Node(<<c>>, NoParam)
       IN  IF i # 0
           THEN [node EXCEPT !.children[i] = add(@, Tail(url), rule)]
           ELSE [node EXCEPT !.children =
                   Append(@, add(new, Tail(url), rule))]

IsSimpleNode(node) ==
  /\ node.rule = 0 /\ node.param = NoParam /\ Len(node.children) < 2
  /\ \A i \in DOMAIN node.children : node.children[i].param = NoParam

(* A node that does nothing but lead to its one child takes its place.     *)
RECURSIVE optimizeNode(_)
optimizeNode(node) ==
  IF node.children = <<>> THEN node
  ELSE IF IsSimpleNode(node)
  THEN optimizeNode([node.children[1] EXCEPT
         !.key = node.key \o @, !.param = node.param])
  ELSE [node EXCEPT !.children =
          [i \in DOMAIN @ |-> optimizeNode(@[i])]]

optimize(head) ==
  [head EXCEPT !.children = [i \in DOMAIN @ |-> optimizeNode(@[i])]]

(* The rule that was added first has precedence.                           *)
Better(a, b) == a.rule # 0 /\ (b.rule = 0 \/ a.rule < b.rule)

(* Trie::find: the rule of a URL, and what its parameter stands for.       *)
RECURSIVE find(_, _, _)
find(url, node, path) ==
  LET below(i) ==
        LET child == node.children[i]
            n == Len(child.key)
            slash == {j \in DOMAIN url : url[j] = "/"}
            end == IF child.param = "<string>" /\ slash # {}
                   THEN (CHOOSE j \in slash : \A l \in slash : j <= l) - 1
                   ELSE Len(url)
        IN
        CASE child.param = NoParam ->
               IF n <= Len(url) /\ SubSeq(url, 1, n) = child.key
               THEN find(SubSeq(url, n + 1, Len(url)), child, path)
               ELSE NoRule
          [] OTHER ->
               IF end = 0 THEN NoRule
               ELSE find(SubSeq(url, end + 1, Len(url)), child,
                         SubSeq(url, 1, end))
      found == {below(i) : i \in DOMAIN node.children}
  IN  IF url = <<>> THEN [rule |-> node.rule, path |-> path]
      ELSE IF \E f \in found : f.rule # 0
      THEN CHOOSE f \in found :
             f.rule # 0 /\ \A g \in found : g = f \/ Better(f, g)
      ELSE NoRule

-----------------------------------------------------------------------------
(* The rules in the order of their declaration.  Rule 0 is none, and 1 is  *)
(* the redirection to a rule that ends in a slash.                         *)
RULE_SPECIAL_REDIRECT_SLASH == 1
Rules(app) ==
  IF app = "web" THEN << <<"/", "config.json">>, <<"/">>, <<"/", "<path>">> >>
  ELSE << <<"/">> >>

(* internal_add_rule_object: a rule that ends in a slash also answers      *)
(* without it, if anything is left.                                        *)
internal_add_rule_object(trie, url, rule) ==
  LET n == Len(url)
      t == add(trie, url, rule)
  IN  IF n > 1 /\ url[n] = "/"
      THEN add(t, SubSeq(url, 1, n - 1), RULE_SPECIAL_REDIRECT_SLASH)
      ELSE t

NewTrie == Node(<<>>, NoParam)

(* per_methods_ once the router is validated: every rule is for GET.       *)
Trie(app) ==
  LET rules == Rules(app)
      all == FoldLeft(LAMBDA t, i : internal_add_rule_object(t, rules[i],
                                                             i + 1),
                      NewTrie, [i \in DOMAIN rules |-> i])
  IN  [m \in DOMAIN Method |-> IF m = "Get" THEN optimize(all) ELSE NewTrie]

per_methods_ == [app \in {"web", "proxy"} |-> Trie(app)]

(* The rule of a request.                                                  *)
Rule(app, method, url) == find(url, per_methods_[app][method], <<>>)
=============================================================================
