\* One user: SuiteIsWhatWasShown is refuted.
CONSTANTS
  User = {u1}
  Test = {t1}
  Workflow = {f1}
  Proposal = {{t1}, {t1, f1}}
  Generated = {t1}
  MaxRevision = 4
SPECIFICATION Spec
PROPERTY SuiteIsWhatWasShown
