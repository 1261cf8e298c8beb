SPECIFICATION FairSpec
CONSTANTS
  Dogs = {outer, inner}
PROPERTIES
  ImplementsAbstract
  DisarmReturns
