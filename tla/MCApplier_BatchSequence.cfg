\* The catalogue batch of two calls of K, from a tree where K is deployed.
CONSTANTS
  Accounts <- MCAccounts
  Faucet = "F"
  Codes <- MCCodes
  Cost <- MCCost
  Fails <- MCFails
  Queue <- MCQueue
  MinimumRewardWithdraw = 1
  RoundIndex = 1
  Catalogue <- MCCatalogue
  InitBalance <- MCInitBalance
  InitReward <- MCInitReward
  MaxSupply = 6
SPECIFICATION Spec
INVARIANT BatchIsSequence
