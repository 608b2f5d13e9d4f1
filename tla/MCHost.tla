------------------------------- MODULE MCHost -------------------------------
(* Components around the process manager that share no state, model-checked   *)
(* side by side: part says whose behaviour this is, the state spaces add up.  *)
EXTENDS LogManager, ProcessTable, DaemonLifecycle, DeployJob,
        ClusterWrapper, DependencyPlan, RuntimeChoice, Upgrade,
        HostInputs, ThresholdMonitor, AlertConfig, CronJobs

CONSTANT Parts
VARIABLE part

Next == \/ /\ part = "log" /\ FileNext
           /\ UNCHANGED <<part, tabVars, dmnVars, depVars, wrapVars, planVars,
                      rtVars, upVars, permVars, monVars, tuneVars,
                      cronVars, exprVars>>
        \/ /\ part = "tail" /\ TailNext
           /\ UNCHANGED <<part, tabVars, dmnVars, depVars, wrapVars, planVars,
                      rtVars, upVars, permVars, monVars, tuneVars,
                      cronVars, exprVars>>
        \/ /\ part = "table" /\ TabNext
           /\ UNCHANGED <<part, logVars, dmnVars, depVars, wrapVars, planVars,
                      rtVars, upVars, permVars, monVars, tuneVars,
                      cronVars, exprVars>>
        \/ /\ part = "daemon" /\ DmnNext
           /\ UNCHANGED <<part, logVars, tabVars, depVars, wrapVars, planVars,
                      rtVars, upVars, permVars, monVars, tuneVars,
                      cronVars, exprVars>>
        \/ /\ part = "deploy" /\ DepNext
           /\ UNCHANGED <<part, logVars, tabVars, dmnVars, wrapVars, planVars,
                      rtVars, upVars, permVars, monVars, tuneVars,
                      cronVars, exprVars>>
        \/ /\ part = "wrapper" /\ WrapNext
           /\ UNCHANGED <<part, logVars, tabVars, dmnVars, depVars, planVars,
                      rtVars, upVars, permVars, monVars, tuneVars,
                      cronVars, exprVars>>
        \/ /\ part = "plan" /\ PlanNext
           /\ UNCHANGED <<part, logVars, tabVars, dmnVars, depVars, wrapVars,
                      rtVars, upVars, permVars, monVars, tuneVars,
                      cronVars, exprVars>>
        \/ /\ part = "runtime" /\ RtNext
           /\ UNCHANGED <<part, logVars, tabVars, dmnVars, depVars, wrapVars,
                      planVars, upVars, permVars, monVars, tuneVars,
                      cronVars, exprVars>>
        \/ /\ part = "upgrade" /\ UpNext
           /\ UNCHANGED <<part, logVars, tabVars, dmnVars, depVars, wrapVars,
                      planVars, rtVars, permVars, monVars, tuneVars,
                      cronVars, exprVars>>
        \/ /\ part = "permissions" /\ PermNext
           /\ UNCHANGED <<part, logVars, tabVars, dmnVars, depVars, wrapVars,
                      planVars, rtVars, upVars, monVars, tuneVars,
                      cronVars, exprVars>>
        \/ /\ part = "alerts" /\ MonNext
           /\ UNCHANGED <<part, logVars, tabVars, dmnVars, depVars, wrapVars,
                      planVars, rtVars, upVars, permVars, tuneVars,
                      cronVars, exprVars>>
        \/ /\ part = "tuning" /\ TuneNext
           /\ UNCHANGED <<part, logVars, tabVars, dmnVars, depVars, wrapVars,
                      planVars, rtVars, upVars, permVars, monVars,
                      cronVars, exprVars>>
        \/ /\ part = "cron" /\ CronNext
           /\ UNCHANGED <<part, logVars, tabVars, dmnVars, depVars, wrapVars,
                      planVars, rtVars, upVars, permVars, monVars,
                      tuneVars, exprVars>>
        \/ /\ part = "expr" /\ ExprNext
           /\ UNCHANGED <<part, logVars, tabVars, dmnVars, depVars, wrapVars,
                      planVars, rtVars, upVars, permVars, monVars,
                      tuneVars, cronVars>>

vars == <<part, logVars, tabVars, dmnVars, depVars, wrapVars, planVars,
          rtVars, upVars, permVars, monVars, tuneVars, cronVars, exprVars>>
Init == /\ part \in Parts
        /\ LogInit /\ (part # "log" => ~compress)
        /\ TabInit
        /\ DmnInit /\ (part # "daemon" => oneByOne /\ service)
        /\ DepInit /\ (part # "deploy" => strategy = "release")
        /\ WrapInit
        /\ PlanInit
        /\ RtInit /\ (part # "runtime" => daemonRt = "none" /\ verdicts["bun"] /\
            rtApp = [ext |-> "js", stated |-> "none", eco |-> FALSE, installed |-> {"deno"}])
        /\ UpInit /\ (part # "upgrade" => front = "npm" /\ denoFlag)
        /\ PermInit
        /\ MonInit /\ (part # "alerts" => metric = "loop")
        /\ TuneInit
        /\ CronInit
        /\ ExprInit
Spec == /\ Init /\ [][Next]_vars

(* Every variable of every part is in its domain.                             *)
HostTypeOK ==
  /\ part \in {"log", "tail"} => LogTypeOK
  /\ part = "table" => TabTypeOK
  /\ part = "daemon" => DmnTypeOK
  /\ part = "deploy" => DepTypeOK
  /\ part = "wrapper" => WrapTypeOK
  /\ part = "plan" => PlanTypeOK
  /\ part = "runtime" => RtTypeOK
  /\ part = "upgrade" => UpTypeOK
  /\ part = "permissions" => PermTypeOK
  /\ part = "alerts" => MonTypeOK
  /\ part = "tuning" => TuneTypeOK
  /\ part = "cron" => CronTypeOK
  /\ part = "expr" => ExprTypeOK
=============================================================================
