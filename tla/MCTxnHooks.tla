----------------------------- MODULE MCTxnHooks -----------------------------
(***************************************************************************)
(* Configurations for TxnHooks.  The first has the cases that interact:    *)
(* a directive scheduled from the hook it is for, one for a past hook, one *)
(* for REMAP from the global configuration, a chain of two, a hook that    *)
(* only the remap rule asks for, a rule that can stop early and a second   *)
(* instance on the same rule.                                              *)
(***************************************************************************)
EXTENDS TxnHooks

W(h, d) == [hook |-> h, drtv |-> d]
NoDirectives == [h \in Hook |-> << >>]

MCDirective == {"creq", "creq2", "chain", "rule", "rule2", "leaf", "fail"}

MCGlobal ==
  [NoDirectives EXCEPT ![CREQ] = <<"creq", "creq2">>, ![POST_LOAD] = <<"leaf">>]

MCRules == << <<"rule", "rule2">>, <<"rule2", "leaf">> >>

MCWhens ==
  [d \in MCDirective |->
     CASE d = "creq"  -> <<W(POST_REMAP, "chain"), W(CREQ, "leaf"), W(REMAP, "leaf")>>
       [] d = "creq2" -> <<W(POST_REMAP, "leaf"), W(TXN_START, "leaf")>>
       [] d = "chain" -> <<W(POST_REMAP, "fail"), W(11, "leaf"), W(CREQ, "leaf")>>
       [] d = "rule"  -> <<W(11, "fail"), W(REMAP, "rule2")>>
       [] d = "rule2" -> <<W(TXN_CLOSE, "leaf")>>
       [] OTHER       -> << >>]

MCMayEnd  == {"rule", "chain"}
MCMayFail == {"fail", "rule2"}
=============================================================================
