\* Every pair of calls in every interleaving, one deployment by the editor.
SPECIFICATION Spec
CHECK_DEADLOCK FALSE
CONSTANTS
  Denied = {"exec"}
  Sessions = {a, b}
  a = a
  b = b
  None = None
  Calls <- MCCalls
  Starts <- MCStarts
  EditorAdds <- MCEditorAdds
  MaxEditorDeploys = 1
SYMMETRY Perms
INVARIANT InstancesResolve
PROPERTIES EditIsExact TabsAreApart TabIsSound PolicyHolds LostOnlyWhenOvertaken
