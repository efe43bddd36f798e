-------------------------- MODULE MCActionExecutor --------------------------
(* Instances of ActionExecutor for TLC. *)
EXTENDS ActionExecutor

CONSTANTS run1

OneRun == {run1}
TwoTypes == {"pre-login", "post-login"}
TwoKeys == {"IsActive", "IsVerified"}
TwoMessages == {"no", "perhaps"}

Allows == [op |-> "allow"]
DeniesWith == [op |-> "deny", message |-> "no"]
DeniesSilently == [op |-> "deny", message |-> ""]
DeniesAtFirst == [op |-> "deny", message |-> "perhaps"]
Throws == [op |-> "throw"]
Hangs == [op |-> "hang"]
Fetches == [op |-> "fetch"]
AllowsIfOk == [op |-> "allow", when |-> "ok"]
DeniesUnlessOk == [op |-> "deny", message |-> "no", when |-> "not ok"]
Activates == [op |-> "change", key |-> "IsActive"]
SetsVerified == [op |-> "setUser", user |-> {"IsVerified"}]

PreLogin(code, priority) ==
  [type |-> "pre-login", code |-> code, is_active |-> TRUE, priority |-> priority]

\* Two actions, of every kind of script.
ManyDrafts ==
  {PreLogin(<<Activates, Allows>>, 1),
   PreLogin(<<SetsVerified, Allows>>, 1),
   PreLogin(<<SetsVerified, Activates, DeniesWith>>, 2),
   PreLogin(<<DeniesAtFirst, Allows>>, 1),
   PreLogin(<<Allows, DeniesWith>>, 2),
   PreLogin(<<DeniesSilently>>, 2),
   PreLogin(<<Activates>>, 1),
   PreLogin(<<Allows, Throws>>, 2),
   PreLogin(<<Allows, Hangs>>, 1),
   PreLogin(<<Fetches, AllowsIfOk, DeniesUnlessOk>>, 1),
   PreLogin(<<Fetches, Fetches, AllowsIfOk>>, 2),
   [PreLogin(<<DeniesWith>>, 1) EXCEPT !.is_active = FALSE],
   [PreLogin(<<DeniesWith>>, 1) EXCEPT !.type = "post-login"]}

\* Scripts that change the user map, in either way, and one that refuses.
FewDrafts ==
  {PreLogin(<<Activates, Allows>>, 1),
   PreLogin(<<SetsVerified, Allows>>, 1),
   PreLogin(<<DeniesWith>>, 2),
   PreLogin(<<Activates>>, 1)}
=============================================================================
