\* Two users edit, publish and adjust one plan of a test and a workflow.
CONSTANTS
  User = {u1, u2}
  Test = {t1}
  Workflow = {f1}
  Proposal = {{t1}, {t1, f1}}
  Generated = {t1}
  MaxRevision = 4
SPECIFICATION Spec
PROPERTIES
  NoLostUpdate
  SuiteIsConfirmed
  PublishedStays
